---- MODULE Spec2Model ----
(***************************************************************************)
(* Loyalty ledger, coupon issuer and cart aggregator of the                *)
(* zaptthatorder-services backend, modelled from the Express/Prisma        *)
(* controllers.  Every `await prisma...` of a handler is one atomic step   *)
(* against the persistence gateway; a handler with several awaits is a     *)
(* request that moves through program positions (pc) and may interleave    *)
(* with other requests between two awaits.  Reads of tables that no        *)
(* modelled operation writes (tiers, perks, rewards) are folded into the   *)
(* neighbouring step.                                                      *)
(*                                                                         *)
(* Money is kept in cents (Decimal(10,2) columns); Date.now() is a         *)
(* millisecond counter that starts at 0.                                   *)
(***************************************************************************)
EXTENDS Integers, Sequences, FiniteSets, TLC

\* ------------------------------------------------------------------ bounds
MaxTxns == 2
MaxRaceTxns == 3
MaxClock == 1
MaxCoupons == 2
MaxItems == 2
MaxCartCalls == 3
MaxOrders == 2
MaxMarks == 2

\* --------------------------------------------------------------- constants
MsPerDay == 24 * 60 * 60 * 1000

Users == {1, 2}
LedgerReqs == {"q1", "q2"}

NoRow == [none |-> TRUE]

\* loyalty_tiers rows (seeded reference data; requiredPoints 0 is the base
\* tier).  name is the primary key; requiredPoints is not unique, and the two
\* highest tiers share theirs.
LoyaltyTiers ==
  { [name |-> "Bronze", requiredPoints |-> 0],
    [name |-> "Silver", requiredPoints |-> 200],
    [name |-> "Gold", requiredPoints |-> 500],
    [name |-> "Platinum", requiredPoints |-> 500] }

\* loyalty_rewards rows: reward 1 is active and costs 200 points, reward 2 is
\* inactive; id 3 names no row.  value is a Decimal(10,2) kept in hundredths:
\* 500 is 5.00 (of currency for Fixed), 1000 is 10.00 (percent for Percentage).
LoyaltyRewards ==
  { [id |-> 1, pointsRequired |-> 200, validityDays |-> 7,
     type |-> "Fixed", value |-> 500, isActive |-> TRUE],
    [id |-> 2, pointsRequired |-> 50, validityDays |-> 14,
     type |-> "Percentage", value |-> 1000, isActive |-> FALSE] }

RewardIdInputs == {0, 1, 2, 3}
PointsInputs == {0, 50, 200}

\* requests of POST /transactions: the user and the body, whose type, points
\* and status are stored as they are given
TransactionInputs ==
  { [userId |-> 1, type |-> "Earned", points |-> 250, status |-> "Completed"],
    [userId |-> 1, type |-> "Earned", points |-> 200, status |-> "Pending"],
    [userId |-> 1, type |-> "Cancelled", points |-> 50, status |-> "Pending"],
    [userId |-> 1, type |-> "Expired", points |-> 50, status |-> "Completed"],
    [userId |-> 2, type |-> "Earned", points |-> 250, status |-> "Completed"],
    [userId |-> 2, type |-> "Bonus", points |-> 50, status |-> "Completed"],
    [userId |-> 2, type |-> "Earned", points |-> -50, status |-> "Completed"] }

CartReqs == {"c1", "c2"}

\* products rows: price in cents
ProductRows ==
  [id \in {1, 2} |->
     IF id = 1 THEN [price |-> 1000, loyaltyPoints |-> 10, stock |-> 3]
               ELSE [price |-> 250, loyaltyPoints |-> 2, stock |-> 3]]

ProductIdInputs == {1, 2, 9}
QuantityInputs == {1, 4}
SizeInputs == {"null", "M"}

\* bodies of POST /coupons: the code, the Decimal(10,2) value in hundredths,
\* the type as given, and expiresAt in milliseconds
CouponInputs ==
  { [code |-> <<"SAVE", 5>>, value |-> 500, type |-> "Fixed", expiresAt |-> 1],
    [code |-> <<"TEN", 0>>, value |-> 1000, type |-> "Percentage", expiresAt |-> 0],
    [code |-> <<"SAVE", 5>>, value |-> 1250, type |-> "Percentage", expiresAt |-> 1] }

CodeInputs == {<<"SAVE", 5>>, <<"TEN", 0>>, <<"NONE", 0>>}

\* orderAmount of the validate body, in cents
OrderAmountInputs == {300, 2000, 10000}

StatusInputs == {"Completed", "Cancelled"}

\* the items of the createOrder body: productId, quantity and the price in
\* cents as the body gives it; product 9 has no row
OrderItemsInputs ==
  { <<>>,
    <<[productId |-> 1, quantity |-> 2, price |-> 1000]>>,
    <<[productId |-> 1, quantity |-> 1, price |-> 1000],
      [productId |-> 2, quantity |-> 1, price |-> 250]>>,
    <<[productId |-> 2, quantity |-> 1, price |-> 250],
      [productId |-> 9, quantity |-> 1, price |-> 100]>>,
    <<[productId |-> 9, quantity |-> 1, price |-> 100]>> }

\* emails of the register and social login bodies: the first two belong to
\* the accounts of Users, the third to nobody yet
EmailInputs == {<<"user", 1>>, <<"user", 2>>, <<"user", 3>>}

VARIABLES
  enrollments,    \* loyalty_enrollments rows
  transactions,   \* loyalty_transactions rows; the id of a row is its index
  coupons,        \* coupons rows
  now,            \* Date.now()
  ledgerReq,      \* the loyalty requests in flight, one record per request
  products,       \* products rows, by id
  carts,          \* carts rows, by userId (unique); the id of a cart is its user's
  cartItems,      \* cart_items rows
  nextItemId,     \* the autoincrement sequence of cart_items.id
  cartCalls,      \* the number of cart requests received so far
  cartReq,        \* the cart requests in flight, one record per request
  couponRes,      \* the last answer of POST /coupons/:code/validate
  users,          \* users rows
  orders,         \* orders rows (committed)
  orderItems,     \* order_items rows (committed)
  nextOrderId,    \* the autoincrement sequence of orders.id
  orderReq,       \* the createOrder request in flight
  incoming,       \* the request the router has received last, as its
                  \* middleware leaves it
  markAnswers     \* the answers of PATCH /coupons/:code/use, in order

ledgerVars == <<enrollments, transactions, coupons, now, ledgerReq>>
cartVars == <<products, carts, cartItems, nextItemId, cartCalls, cartReq>>
orderVars == <<orders, orderItems, nextOrderId, orderReq>>
edgeVars == <<users, orderVars, incoming, markAnswers>>
vars == <<ledgerVars, cartVars, couponRes, edgeVars>>

\* ------------------------------------------------------------ pure helpers

\* prisma.loyaltyTransaction.findMany({ where: { userId } })
RECURSIVE FindManyTransactions(_, _)
FindManyTransactions(rows, userId) ==
  IF rows = <<>> THEN <<>>
  ELSE IF Head(rows).userId = userId
       THEN <<Head(rows)>> \o FindManyTransactions(Tail(rows), userId)
       ELSE FindManyTransactions(Tail(rows), userId)

\* the reducer of calculateTotalPoints applied to one row
ReduceWrongStatus(sum, t) ==
  IF t.status # "Completed" THEN sum
  ELSE IF t.type = "Earned" THEN sum + t.points
  ELSE IF t.type \in {"Redeemed", "Cancelled", "Expired"} THEN sum - t.points
  ELSE sum

ReducePoints(sum, t) ==
  IF t.type = "Earned" THEN sum + t.points
  ELSE IF t.type = "Redeemed" \/ t.type = "Cancelled" \/ t.type = "Expired"
       THEN sum - t.points
  ELSE sum

\* calculateTotalPoints: transactions.reduce(..., 0)
RECURSIVE calculateTotalPointsFrom(_, _)
calculateTotalPointsFrom(sum, rows) ==
  IF rows = <<>> THEN sum
  ELSE calculateTotalPointsFrom(ReducePoints(sum, Head(rows)), Tail(rows))

calculateTotalPoints(rows) == calculateTotalPointsFrom(0, rows)

FindEnrollment(userId) ==
  IF \E e \in enrollments : e.userId = userId
  THEN CHOOSE e \in enrollments : e.userId = userId
  ELSE NoRow

FindReward(rewardId) ==
  IF \E w \in LoyaltyRewards : w.id = rewardId
  THEN CHOOSE w \in LoyaltyRewards : w.id = rewardId
  ELSE NoRow

\* prisma.loyaltyTier.findFirst({ where: { requiredPoints: 0 } })
FindBaseTier ==
  IF \E t \in LoyaltyTiers : t.requiredPoints = 0
  THEN CHOOSE t \in LoyaltyTiers : t.requiredPoints = 0
  ELSE NoRow

\* a tier lookup that answers the highest tier whatever the name
FindTierIgnoringName(name) ==
  CHOOSE t \in LoyaltyTiers :
     \A u \in LoyaltyTiers : u.requiredPoints <= t.requiredPoints

\* prisma.loyaltyTier.findUnique({ where: { name: enrollment.tierName } })
FindTier(name) ==
  IF \E t \in LoyaltyTiers : t.name = name
  THEN CHOOSE t \in LoyaltyTiers : t.name = name
  ELSE NoRow

\* the next tier with requiredPoints compared by gte
NextTierCandidatesInclusive(tier) ==
  {t \in LoyaltyTiers :
     /\ t.name # tier.name
     /\ t.requiredPoints >= tier.requiredPoints
     /\ \A u \in LoyaltyTiers :
          (u.name # tier.name /\ u.requiredPoints >= tier.requiredPoints)
             => t.requiredPoints <= u.requiredPoints}

\* prisma.loyaltyTier.findFirst({ where: { requiredPoints: { gt } },
\* orderBy: { requiredPoints: 'asc' } }): the rows the gateway may answer,
\* one of those of the least requiredPoints above the tier's; none when no
\* tier is above
NextTierCandidates(tier) ==
  {t \in LoyaltyTiers :
     /\ t.requiredPoints > tier.requiredPoints
     /\ \A u \in LoyaltyTiers :
          u.requiredPoints > tier.requiredPoints
             => t.requiredPoints <= u.requiredPoints}

\* `LOYALTY-${Date.now()}`
LoyaltyCode(ms) == <<"LOYALTY", ms>>

\* ------------------------------------------------------- request records

IdleReq ==
  [op |-> "none", pc |-> "idle", userId |-> 0, points |-> 0, rewardId |-> 0,
   totalPoints |-> 0, tierName |-> "", nextTier |-> "", email |-> <<"user", 0>>,
   joinLoyalty |-> FALSE, error |-> "", responses |-> 0, body |-> "none"]

Finished(q) == ledgerReq[q].pc \in {"idle", "done", "failed", "coupon_issued"}

NewReq(op, pc, userId, points, rewardId) ==
  [IdleReq EXCEPT !.op = op, !.pc = pc, !.userId = userId, !.points = points,
                  !.rewardId = rewardId]

\* throw new AppError(message, ...): the request ends, later awaits never run
\* and the locals of the handler are gone
Failed(r, message) ==
  [IdleReq EXCEPT !.op = r.op, !.pc = "failed", !.userId = r.userId,
                  !.error = message, !.responses = r.responses,
                  !.body = r.body]

Throw(q, message) ==
  ledgerReq' = [ledgerReq EXCEPT ![q] = Failed(ledgerReq[q], message)]

Goto(q, pc) == ledgerReq' = [ledgerReq EXCEPT ![q].pc = pc]

InitLedger ==
  /\ enrollments = {}
  /\ transactions = <<>>
  /\ coupons = {}
  /\ now = 0
  /\ ledgerReq = [q \in LedgerReqs |-> IdleReq]


\* ---------------------------------------------------------- ledger actions

\* A failure of the persistence gateway (connection error, timeout) at the
\* await the request is waiting on: the handler's catch turns it into
\* AppError('Failed to ...', 500) and nothing the request wrote before is
\* undone, since no handler of the ledger opens a prisma.$transaction.
GatewayFailure(q) ==
  /\ ~Finished(q)
  /\ Throw(q, "Failed: gateway")
  /\ UNCHANGED <<cartVars, edgeVars, couponRes, enrollments, transactions, coupons, now>>

\* Date.now() advances
Tick ==
  /\ now < MaxClock
  /\ now' = now + 1
  /\ UNCHANGED <<cartVars, edgeVars, couponRes, enrollments, transactions, coupons, ledgerReq>>

\* enrollInLoyalty, first await: `!userId` is answered 401 (a request without
\* req.user is userId 0 here); else look the enrollment up, then the base tier
EnrollFindAlwaysProceeds(q, userId) ==
  /\ Finished(q)
  /\ ledgerReq' = [ledgerReq EXCEPT ![q] =
        NewReq("enrollInLoyalty", "enroll_create", userId, 0, 0)]
  /\ UNCHANGED <<cartVars, edgeVars, couponRes, enrollments, transactions, coupons, now>>

EnrollFind(q, userId) ==
  /\ Finished(q)
  /\ LET r == NewReq("enrollInLoyalty", "enroll_create", userId, 0, 0) IN
     ledgerReq' = [ledgerReq EXCEPT ![q] =
        IF userId = 0 THEN Failed(r, "User not authenticated")
        ELSE IF FindEnrollment(userId) # NoRow
        THEN Failed(r, "User already enrolled in loyalty program")
        ELSE IF FindBaseTier = NoRow
        THEN Failed(r, "Base tier not found")
        ELSE r]
  /\ UNCHANGED <<cartVars, edgeVars, couponRes, enrollments, transactions, coupons, now>>

\* prisma.loyaltyEnrollment.create: userId is the primary key of the table,
\* so the insert of a second row for the user is rejected by the gateway
InsertEnrollment(rows, row) ==
  IF \E e \in rows : e.userId = row.userId THEN rows ELSE rows \cup {row}

\* enrollInLoyalty, second await: create the enrollment and answer
EnrollCreate(q) ==
  /\ ledgerReq[q].pc = "enroll_create"
  /\ LET row == [userId |-> ledgerReq[q].userId, tierName |-> FindBaseTier.name]
         rows == InsertEnrollment(enrollments, row) IN
     /\ enrollments' = rows
     /\ IF row \in rows /\ row \notin enrollments
        THEN ledgerReq' = [ledgerReq EXCEPT ![q] =
               [IdleReq EXCEPT !.op = "enrollInLoyalty", !.pc = "done",
                               !.userId = row.userId, !.responses = 1]]
        ELSE Throw(q, "Failed to enroll in loyalty program")
  /\ UNCHANGED <<cartVars, edgeVars, couponRes, transactions, coupons, now>>

\* createTransaction: `!userId` is answered 401; else one insert, the body's
\* type, points and status as given
createTransaction(body) ==
  /\ transactions' =
        IF body.userId = 0 THEN transactions
        ELSE Append(transactions,
               [userId |-> body.userId, type |-> body.type, points |-> body.points,
                description |-> "body", status |-> body.status])
  /\ UNCHANGED <<cartVars, edgeVars, couponRes, enrollments, coupons, now, ledgerReq>>

\* updateTransactionStatus with a data clause that also resets the points
updateTransactionStatusResetsPoints(id, status) ==
  /\ IF id \in 1..Len(transactions)
     THEN transactions' = [transactions EXCEPT ![id].status = status,
                                               ![id].points = 0]
     ELSE UNCHANGED transactions
  /\ UNCHANGED <<cartVars, edgeVars, couponRes, enrollments, coupons, now, ledgerReq>>

\* updateTransactionStatus: prisma.loyaltyTransaction.update({ where: { id } });
\* an unknown id makes update throw, which is answered 500 and writes nothing
updateTransactionStatus(id, status) ==
  /\ IF id \in 1..Len(transactions)
     THEN transactions' = [transactions EXCEPT ![id].status = status]
     ELSE UNCHANGED transactions
  /\ UNCHANGED <<cartVars, edgeVars, couponRes, enrollments, coupons, now, ledgerReq>>

\* getLoyaltyStatus, first awaits: the enrollment and its tier.  redeemPoints
\* reaches them through its call of getLoyaltyStatus, after it has checked
\* that the body carries points and rewardId (`!points || !rewardId`).
StatusFindEnrollment(q, op, userId, points, rewardId) ==
  /\ Finished(q)
  /\ op \in {"getLoyaltyStatus", "getLoyaltyBanner", "redeemPoints"}
  /\ op # "redeemPoints" => points = 0 /\ rewardId = 0
  /\ LET r == NewReq(op, "status_transactions", userId, points, rewardId) IN
     ledgerReq' = [ledgerReq EXCEPT ![q] =
        IF userId = 0 THEN Failed(r, "User not authenticated")
        ELSE IF op = "redeemPoints" /\ (points = 0 \/ rewardId = 0)
        THEN Failed(r, "Points and reward ID are required")
        ELSE IF FindEnrollment(userId) = NoRow
        THEN Failed(r, "User not enrolled in loyalty program")
        ELSE IF FindTier(FindEnrollment(userId).tierName) = NoRow
        THEN Failed(r, "Tier not found")
        ELSE [r EXCEPT !.tierName = FindTier(FindEnrollment(userId).tierName).name]]
  /\ UNCHANGED <<cartVars, edgeVars, couponRes, enrollments, transactions, coupons, now>>

\* getLoyaltyStatus, the transactions read and the next tier: totalPoints is
\* computed and the status, with the enrolled tier's name and the next tier
\* if there is one, is sent with res.status(200).json(status).  redeemPoints
\* goes on with its balance check against the body's points and its reward
\* lookup.  getLoyaltyBanner goes on to res.json(banner) on the response that
\* has been sent: Express throws ERR_HTTP_HEADERS_SENT and the catch rethrows
\* AppError('Failed to get loyalty banner', 500).
StatusFindTransactions(q) ==
  /\ ledgerReq[q].pc = "status_transactions"
  /\ \E nextTier \in
        IF NextTierCandidates(FindTier(ledgerReq[q].tierName)) = {} THEN {""}
        ELSE {t.name : t \in NextTierCandidates(FindTier(ledgerReq[q].tierName))} :
     LET r == ledgerReq[q]
         totalPoints ==
           calculateTotalPoints(FindManyTransactions(transactions, r.userId))
         sent == [r EXCEPT !.totalPoints = totalPoints, !.nextTier = nextTier,
                           !.responses = 1, !.body = "status"]
         reward == FindReward(r.rewardId) IN
     ledgerReq' = [ledgerReq EXCEPT ![q] =
        IF r.op = "getLoyaltyStatus" THEN [sent EXCEPT !.pc = "done"]
        ELSE IF r.op = "getLoyaltyBanner"
        THEN Failed(sent, "Failed to get loyalty banner")
        ELSE IF totalPoints < r.points
        THEN Failed(sent, "Insufficient points")
        ELSE IF reward = NoRow
        THEN Failed(sent, "Reward not found")
        ELSE IF ~reward.isActive
        THEN Failed(sent, "Reward is not active")
        ELSE [sent EXCEPT !.pc = "redeem_transaction"]]
  /\ UNCHANGED <<cartVars, edgeVars, couponRes, enrollments, transactions, coupons, now>>

\* redeemPoints: prisma.loyaltyTransaction.create of the Redeemed row
RedeemCreateTransaction(q) ==
  /\ ledgerReq[q].pc = "redeem_transaction"
  /\ transactions' = Append(transactions,
        [userId |-> ledgerReq[q].userId, type |-> "Redeemed",
         points |-> ledgerReq[q].points, description |-> "redeemPoints",
         status |-> "Completed"])
  /\ Goto(q, "redeem_coupon")
  /\ UNCHANGED <<cartVars, edgeVars, couponRes, enrollments, coupons, now>>

\* redeemPoints: prisma.coupon.create, code unique.  The answer that follows,
\* res.status(200).json, is written on the response getLoyaltyStatus has
\* already sent: Express throws ERR_HTTP_HEADERS_SENT, the catch rethrows
\* AppError('Failed to redeem points', 500) and no second response is sent.
RedeemCreateCoupon(q) ==
  /\ ledgerReq[q].pc = "redeem_coupon"
  /\ LET reward == FindReward(ledgerReq[q].rewardId)
         code == LoyaltyCode(now) IN
     IF \E c \in coupons : c.code = code
     THEN /\ Throw(q, "Failed to redeem points")
          /\ UNCHANGED coupons
     ELSE /\ coupons' = coupons \cup
               {[code |-> code, value |-> reward.value, type |-> reward.type,
                 expiresAt |-> now + reward.validityDays * MsPerDay,
                 isUsed |-> FALSE]}
          /\ ledgerReq' = [ledgerReq EXCEPT ![q].pc = "coupon_issued",
                                            ![q].error = "Failed to redeem points"]
  /\ UNCHANGED <<cartVars, edgeVars, couponRes, enrollments, transactions, now>>

\* --------------------------------------------------------- account actions

\* prisma.user.findUnique({ where: { email } })
FindUserByEmail(email) ==
  IF \E u \in users : u.email = email
  THEN CHOOSE u \in users : u.email = email
  ELSE NoRow

\* the row of the initial enrollment, written by registerUser and socialLogin
InitialTransaction(userId) ==
  [userId |-> userId, type |-> "Earned", points |-> 0,
   description |-> "Initial enrollment", status |-> "Completed"]

\* authService.registerUser: one prisma.$transaction, so the user, the
\* enrollment in 'Bronze' and the zero-point transaction are written together.
\* A registered email throws 'Email already registered' and writes nothing.
registerUser(email, joinLoyalty) ==
  /\ FindUserByEmail(email) = NoRow
  /\ LET id == Cardinality(users) + 1 IN
     /\ users' = users \cup {[id |-> id, email |-> email]}
     /\ enrollments' =
          IF joinLoyalty
          THEN InsertEnrollment(enrollments, [userId |-> id, tierName |-> "Bronze"])
          ELSE enrollments
     /\ transactions' =
          IF joinLoyalty THEN Append(transactions, InitialTransaction(id))
          ELSE transactions
  /\ UNCHANGED <<cartVars, couponRes, markAnswers, orderVars, incoming, coupons, now, ledgerReq>>

\* authService.socialLogin, first await: prisma.user.findUnique by email; a
\* user that exists is answered with a token and nothing is written
SocialLoginFind(q, email, joinLoyalty) ==
  /\ Finished(q)
  /\ LET user == FindUserByEmail(email)
         r == [IdleReq EXCEPT !.op = "socialLogin", !.email = email,
                              !.joinLoyalty = joinLoyalty] IN
     ledgerReq' = [ledgerReq EXCEPT ![q] =
        IF user = NoRow THEN [r EXCEPT !.pc = "social_create_user"]
        ELSE [r EXCEPT !.pc = "done", !.userId = user.id, !.joinLoyalty = FALSE,
                       !.responses = 1]]
  /\ UNCHANGED <<cartVars, couponRes, edgeVars, enrollments, transactions, coupons, now>>

\* socialLogin: prisma.user.create (email is unique: a user registered
\* meanwhile makes the create throw)
SocialLoginCreateUser(q) ==
  /\ ledgerReq[q].pc = "social_create_user"
  /\ LET r == ledgerReq[q]
         id == Cardinality(users) + 1 IN
     IF FindUserByEmail(r.email) # NoRow
     THEN /\ Throw(q, "Failed: unique constraint")
          /\ UNCHANGED users
     ELSE /\ users' = users \cup {[id |-> id, email |-> r.email]}
          /\ ledgerReq' = [ledgerReq EXCEPT ![q] =
               IF r.joinLoyalty
               THEN [r EXCEPT !.pc = "social_transaction", !.userId = id]
               ELSE [r EXCEPT !.pc = "done", !.userId = id, !.responses = 1]]
  /\ UNCHANGED <<cartVars, couponRes, markAnswers, orderVars, incoming, enrollments, transactions, coupons, now>>

\* socialLogin with joinLoyalty: prisma.loyaltyTransaction.create of the
\* zero-point row; no enrollment row is created on this path
SocialLoginCreateTransaction(q) ==
  /\ ledgerReq[q].pc = "social_transaction"
  /\ transactions' = Append(transactions, InitialTransaction(ledgerReq[q].userId))
  /\ ledgerReq' = [ledgerReq EXCEPT ![q].pc = "done", ![q].joinLoyalty = FALSE,
                                    ![q].responses = 1]
  /\ UNCHANGED <<cartVars, couponRes, edgeVars, enrollments, coupons, now>>

\* ------------------------------------------------------------ cart actions

IdleCartReq ==
  [op |-> "none", pc |-> "idle", userId |-> 0, productId |-> 0, quantity |-> 0,
   size |-> "null", itemId |-> 0, cart |-> NoRow, cartItem |-> NoRow,
   product |-> NoRow, error |-> ""]

InitCart ==
  /\ products = ProductRows
  /\ carts = [userId \in Users |-> NoRow]
  /\ cartItems = {}
  /\ nextItemId = 1
  /\ cartCalls = 0
  /\ cartReq = [c \in CartReqs |-> IdleCartReq]

CartFinished(c) == cartReq[c].pc \in {"idle", "done", "failed"}

\* throw new AppError(message, ...): the handler ends and its locals are gone
CartFailed(r, message) ==
  [IdleCartReq EXCEPT !.op = r.op, !.pc = "failed", !.userId = r.userId,
                      !.error = message]

CartThrow(c, message) ==
  cartReq' = [cartReq EXCEPT ![c] = CartFailed(cartReq[c], message)]

\* the answer is sent: the handler ends
CartDone(c) ==
  cartReq' = [cartReq EXCEPT ![c] =
     [IdleCartReq EXCEPT !.op = cartReq[c].op, !.pc = "done",
                         !.userId = cartReq[c].userId]]

\* a gateway failure at the await the cart request is waiting on: the catch
\* rethrows AppError('Failed to ...', 500); no cart handler opens a
\* prisma.$transaction, so what the request wrote before stays written
CartGatewayFailure(c) ==
  /\ ~CartFinished(c)
  /\ CartThrow(c, "Failed: gateway")
  /\ UNCHANGED <<ledgerVars, edgeVars, couponRes, products, carts, cartItems, nextItemId, cartCalls>>

\* prisma.cartItem.findUnique({ where: { id }, include: { product } })
FindCartItem(id) ==
  IF \E it \in cartItems : it.id = id
  THEN LET it == CHOOSE x \in cartItems : x.id = id IN
       [cartId |-> it.cartId, quantity |-> it.quantity,
        price |-> products[it.productId].price,
        loyaltyPoints |-> products[it.productId].loyaltyPoints]
  ELSE NoRow

\* addItem: prisma.product.findUnique and `if (!product)`; the select leaves
\* the stock column out and no comparison with the quantity follows
AddItemProduct(r) ==
  IF r.productId \notin DOMAIN products THEN CartFailed(r, "Product not found")
  ELSE [r EXCEPT !.pc = "add_create_item", !.product = products[r.productId]]

\* addItem, first await: `!req.user` is answered 401 (userId 0 here); else
\* prisma.cart.findUnique; with a cart in hand the product is looked up next
AddItemFindCart(c, userId, productId, quantity, size) ==
  /\ CartFinished(c)
  /\ LET r == [IdleCartReq EXCEPT !.op = "addItem", !.pc = "add_create_cart",
                 !.userId = userId, !.productId = productId,
                 !.quantity = quantity, !.size = size] IN
     cartReq' = [cartReq EXCEPT ![c] =
        IF userId = 0 THEN CartFailed(r, "Unauthorized")
        ELSE IF carts[userId] = NoRow THEN r
        ELSE AddItemProduct([r EXCEPT !.cart = carts[userId]])]
  /\ cartCalls' = cartCalls + 1
  /\ UNCHANGED <<ledgerVars, edgeVars, couponRes, products, carts, cartItems, nextItemId>>

\* addItem: prisma.cart.create with the aggregates at 0 (userId is unique: a
\* cart created meanwhile by another request makes the create throw)
AddItemCreateCart(c) ==
  /\ cartReq[c].pc = "add_create_cart"
  /\ LET r == cartReq[c]
         row == [subtotal |-> 0, total |-> 0, estimatedLoyaltyPoints |-> 0] IN
     IF carts[r.userId] # NoRow
     THEN /\ CartThrow(c, "Failed to add item to cart")
          /\ UNCHANGED carts
     ELSE /\ carts' = [carts EXCEPT ![r.userId] = row]
          /\ cartReq' = [cartReq EXCEPT ![c] = AddItemProduct([r EXCEPT !.cart = row])]
  /\ UNCHANGED <<ledgerVars, edgeVars, couponRes, products, cartItems, nextItemId, cartCalls>>

\* addItem: prisma.cartItem.create, always a new row
AddItemCreateItem(c) ==
  /\ cartReq[c].pc = "add_create_item"
  /\ LET r == cartReq[c] IN
     /\ cartItems' = cartItems \cup
          {[id |-> nextItemId, cartId |-> r.userId, productId |-> r.productId,
            quantity |-> r.quantity, size |-> r.size, color |-> "null"]}
     /\ nextItemId' = nextItemId + 1
     /\ cartReq' = [cartReq EXCEPT ![c].pc = "add_update_cart"]
  /\ UNCHANGED <<ledgerVars, edgeVars, couponRes, products, carts, cartCalls>>

\* addItem: prisma.cart.update from the cart row read at the first await and
\* the product read before the insert
AddItemUpdateCart(c) ==
  /\ cartReq[c].pc = "add_update_cart"
  /\ LET r == cartReq[c]
         product == r.product IN
     carts' = [carts EXCEPT ![r.userId] =
        [subtotal |-> r.cart.subtotal + product.price * r.quantity,
         total |-> r.cart.total + product.price * r.quantity,
         estimatedLoyaltyPoints |->
            r.cart.estimatedLoyaltyPoints + product.loyaltyPoints * r.quantity]]
  /\ CartDone(c)
  /\ UNCHANGED <<ledgerVars, edgeVars, couponRes, products, cartItems, nextItemId, cartCalls>>

\* updateItem, removeItem, clearCart, first await: `!req.user` is answered
\* 401; else prisma.cart.findUnique
FindCart(c, op, userId, itemId, quantity, size) ==
  /\ CartFinished(c)
  /\ op \in {"updateItem", "removeItem", "clearCart"}
  /\ LET r == [IdleCartReq EXCEPT !.op = op,
                 !.pc = IF op = "clearCart" THEN "clear_items" ELSE "find_item",
                 !.userId = userId, !.itemId = itemId, !.quantity = quantity,
                 !.size = size] IN
     cartReq' = [cartReq EXCEPT ![c] =
        IF userId = 0 THEN CartFailed(r, "Unauthorized")
        ELSE IF carts[userId] = NoRow THEN CartFailed(r, "Cart not found")
        ELSE [r EXCEPT !.cart = carts[userId]]]
  /\ cartCalls' = cartCalls + 1
  /\ UNCHANGED <<ledgerVars, edgeVars, couponRes, products, carts, cartItems, nextItemId>>

\* updateItem, removeItem: prisma.cartItem.findUnique with its product, and
\* `if (!cartItem || cartItem.cartId !== cart.id)`
FindItem(c) ==
  /\ cartReq[c].pc = "find_item"
  /\ LET r == cartReq[c]
         cartItem == FindCartItem(r.itemId) IN
     cartReq' = [cartReq EXCEPT ![c] =
        IF cartItem = NoRow THEN CartFailed(r, "Item not found in cart")
        ELSE IF cartItem.cartId # r.userId THEN CartFailed(r, "Item not found in cart")
        ELSE [r EXCEPT !.cartItem = cartItem,
                !.pc = IF r.op = "updateItem" THEN "update_item" ELSE "delete_item"]]
  /\ UNCHANGED <<ledgerVars, edgeVars, couponRes, products, carts, cartItems, nextItemId, cartCalls>>

\* updateItem: prisma.cartItem.update (it throws when the row is gone); the
\* row comes back with the product as it is now
UpdateItemWrite(c) ==
  /\ cartReq[c].pc = "update_item"
  /\ LET r == cartReq[c] IN
     IF \E it \in cartItems : it.id = r.itemId
     THEN LET it == CHOOSE x \in cartItems : x.id = r.itemId IN
          /\ cartItems' = (cartItems \ {it}) \cup
                {[it EXCEPT !.quantity = r.quantity, !.size = r.size]}
          /\ cartReq' = [cartReq EXCEPT ![c].pc = "update_cart",
                                        ![c].productId = it.productId,
                                        ![c].product = products[it.productId]]
     ELSE /\ CartThrow(c, "Failed to update cart item")
          /\ UNCHANGED cartItems
  /\ UNCHANGED <<ledgerVars, edgeVars, couponRes, products, carts, nextItemId, cartCalls>>

\* updateItem with the old contribution of the item left in the aggregates
UpdateItemUpdateCartKeepsOld(c) ==
  /\ cartReq[c].pc = "update_cart"
  /\ LET r == cartReq[c]
         product == r.product
         priceDiff == product.price * r.quantity
         pointsDiff == product.loyaltyPoints * r.quantity IN
     carts' = [carts EXCEPT ![r.userId] =
        [subtotal |-> r.cart.subtotal + priceDiff,
         total |-> r.cart.total + priceDiff,
         estimatedLoyaltyPoints |-> r.cart.estimatedLoyaltyPoints + pointsDiff]]
  /\ CartDone(c)
  /\ UNCHANGED <<ledgerVars, edgeVars, couponRes, products, cartItems, nextItemId, cartCalls>>

\* updateItem: priceDiff, pointsDiff and prisma.cart.update
UpdateItemUpdateCart(c) ==
  /\ cartReq[c].pc = "update_cart"
  /\ LET r == cartReq[c]
         product == r.product
         priceDiff == product.price * r.quantity - r.cartItem.price * r.cartItem.quantity
         pointsDiff == product.loyaltyPoints * r.quantity
                         - r.cartItem.loyaltyPoints * r.cartItem.quantity IN
     carts' = [carts EXCEPT ![r.userId] =
        [subtotal |-> r.cart.subtotal + priceDiff,
         total |-> r.cart.total + priceDiff,
         estimatedLoyaltyPoints |-> r.cart.estimatedLoyaltyPoints + pointsDiff]]
  /\ CartDone(c)
  /\ UNCHANGED <<ledgerVars, edgeVars, couponRes, products, cartItems, nextItemId, cartCalls>>

\* removeItem: prisma.cartItem.delete (it throws when the row is gone)
RemoveItemDelete(c) ==
  /\ cartReq[c].pc = "delete_item"
  /\ LET r == cartReq[c] IN
     IF \E it \in cartItems : it.id = r.itemId
     THEN /\ cartItems' = {it \in cartItems : it.id # r.itemId}
          /\ cartReq' = [cartReq EXCEPT ![c].pc = "remove_update_cart"]
     ELSE /\ CartThrow(c, "Failed to remove item from cart")
          /\ UNCHANGED cartItems
  /\ UNCHANGED <<ledgerVars, edgeVars, couponRes, products, carts, nextItemId, cartCalls>>

\* removeItem: prisma.cart.update, the item's contribution taken off
RemoveItemUpdateCart(c) ==
  /\ cartReq[c].pc = "remove_update_cart"
  /\ LET r == cartReq[c]
         priceDiff == r.cartItem.price * r.cartItem.quantity
         pointsDiff == r.cartItem.loyaltyPoints * r.cartItem.quantity IN
     carts' = [carts EXCEPT ![r.userId] =
        [subtotal |-> r.cart.subtotal - priceDiff,
         total |-> r.cart.total - priceDiff,
         estimatedLoyaltyPoints |-> r.cart.estimatedLoyaltyPoints - pointsDiff]]
  /\ CartDone(c)
  /\ UNCHANGED <<ledgerVars, edgeVars, couponRes, products, cartItems, nextItemId, cartCalls>>

\* clearCart: prisma.cartItem.deleteMany({ where: { cartId } })
ClearCartDeleteItems(c) ==
  /\ cartReq[c].pc = "clear_items"
  /\ cartItems' = {it \in cartItems : it.cartId # cartReq[c].userId}
  /\ cartReq' = [cartReq EXCEPT ![c].pc = "clear_update_cart"]
  /\ UNCHANGED <<ledgerVars, edgeVars, couponRes, products, carts, nextItemId, cartCalls>>

\* clearCart: prisma.cart.update, the three aggregates set to 0
ClearCartUpdateCart(c) ==
  /\ cartReq[c].pc = "clear_update_cart"
  /\ carts' = [carts EXCEPT ![cartReq[c].userId] =
        [subtotal |-> 0, total |-> 0, estimatedLoyaltyPoints |-> 0]]
  /\ CartDone(c)
  /\ UNCHANGED <<ledgerVars, edgeVars, couponRes, products, cartItems, nextItemId, cartCalls>>

\* ------------------------------ cart actions of controllers/cart.controller

\* `size || null` of the findFirst filter: the empty string is falsy
SizeOrNull(size) == IF size = "" THEN "null" ELSE size

\* prisma.cartItem.findFirst({ where: { cartId, productId, size, color } })
FindFirstCartItem(cartId, productId, size) ==
  LET found == {it \in cartItems : /\ it.cartId = cartId
                                   /\ it.productId = productId
                                   /\ it.size = size
                                   /\ it.color = "null"} IN
  IF found = {} THEN NoRow
  ELSE CHOOSE it \in found : \A other \in found : it.id <= other.id

\* addCartItem, first await: `!userId` is answered 401; prisma.product
\* .findUnique, `if (!product)` and `if (product.stock < quantity)`
AddCartItemFindProduct(c, userId, productId, quantity, size) ==
  /\ CartFinished(c)
  /\ LET r == [IdleCartReq EXCEPT !.op = "addCartItem", !.pc = "merge_find_cart",
                 !.userId = userId, !.productId = productId,
                 !.quantity = quantity, !.size = size] IN
     cartReq' = [cartReq EXCEPT ![c] =
        IF userId = 0 THEN CartFailed(r, "User not authenticated")
        ELSE IF productId \notin DOMAIN products THEN CartFailed(r, "Product not found")
        ELSE IF products[productId].stock < quantity
             THEN CartFailed(r, "Only stock items available in stock")
        ELSE [r EXCEPT !.product = products[productId]]]
  /\ cartCalls' = cartCalls + 1
  /\ UNCHANGED <<ledgerVars, edgeVars, couponRes, products, carts, cartItems, nextItemId>>

\* addCartItem: prisma.cart.findUnique({ where: { userId } })
AddCartItemFindCart(c) ==
  /\ cartReq[c].pc = "merge_find_cart"
  /\ LET r == cartReq[c] IN
     cartReq' = [cartReq EXCEPT ![c] =
        IF carts[r.userId] = NoRow THEN [r EXCEPT !.pc = "merge_create_cart"]
        ELSE [r EXCEPT !.cart = carts[r.userId], !.pc = "merge_find_item"]]
  /\ UNCHANGED <<ledgerVars, edgeVars, couponRes, products, carts, cartItems, nextItemId, cartCalls>>

\* addCartItem: prisma.cart.create({ data: { userId } }). The data names no
\* aggregate: the table of schema.sql defaults the three to 0, the model Cart
\* of the Prisma schema declares them required without a default and the
\* create is refused; either build can be the one that runs. userId is
\* unique: a cart created meanwhile makes the create throw.
AddCartItemCreateCart(c) ==
  /\ cartReq[c].pc = "merge_create_cart"
  /\ LET r == cartReq[c]
         row == [subtotal |-> 0, total |-> 0, estimatedLoyaltyPoints |-> 0] IN
     \E defaulted \in BOOLEAN :
        IF carts[r.userId] # NoRow \/ ~defaulted
        THEN /\ CartThrow(c, "Failed to add item to cart")
             /\ UNCHANGED carts
        ELSE /\ carts' = [carts EXCEPT ![r.userId] = row]
             /\ cartReq' = [cartReq EXCEPT ![c].cart = row,
                                           ![c].pc = "merge_find_item"]
  /\ UNCHANGED <<ledgerVars, edgeVars, couponRes, products, cartItems, nextItemId, cartCalls>>

\* addCartItem: prisma.cartItem.findFirst for the same product, size and
\* color; with an item in hand `newQuantity > product.stock` is checked
\* against the product read at the first await
AddCartItemFindExisting(c) ==
  /\ cartReq[c].pc = "merge_find_item"
  /\ LET r == cartReq[c]
         existingItem == FindFirstCartItem(r.userId, r.productId, SizeOrNull(r.size)) IN
     cartReq' = [cartReq EXCEPT ![c] =
        IF existingItem = NoRow THEN [r EXCEPT !.pc = "merge_create_item"]
        ELSE IF existingItem.quantity + r.quantity > r.product.stock
             THEN CartFailed(r, "Only stock items available in stock")
        ELSE [r EXCEPT !.cartItem = existingItem, !.itemId = existingItem.id,
                       !.pc = "merge_update_item"]]
  /\ UNCHANGED <<ledgerVars, edgeVars, couponRes, products, carts, cartItems, nextItemId, cartCalls>>

\* addCartItem: prisma.cartItem.update({ data: { quantity: newQuantity } })
\* with the newQuantity computed from the item as it was found (the update
\* throws when the row is gone); the cart row is not written
AddCartItemUpdateExisting(c) ==
  /\ cartReq[c].pc = "merge_update_item"
  /\ LET r == cartReq[c] IN
     IF \E it \in cartItems : it.id = r.itemId
     THEN LET it == CHOOSE x \in cartItems : x.id = r.itemId IN
          /\ cartItems' = (cartItems \ {it}) \cup
                {[it EXCEPT !.quantity = r.cartItem.quantity + r.quantity]}
          /\ CartDone(c)
     ELSE /\ CartThrow(c, "Failed to add item to cart")
          /\ UNCHANGED cartItems
  /\ UNCHANGED <<ledgerVars, edgeVars, couponRes, products, carts, nextItemId, cartCalls>>

\* addCartItem: prisma.cartItem.create with the size as the body gives it;
\* the cart row is not written
AddCartItemCreate(c) ==
  /\ cartReq[c].pc = "merge_create_item"
  /\ LET r == cartReq[c] IN
     /\ cartItems' = cartItems \cup
          {[id |-> nextItemId, cartId |-> r.userId, productId |-> r.productId,
            quantity |-> r.quantity, size |-> r.size, color |-> "null"]}
     /\ nextItemId' = nextItemId + 1
  /\ CartDone(c)
  /\ UNCHANGED <<ledgerVars, edgeVars, couponRes, products, carts, cartCalls>>

\* the message of the catch of each handler of controllers/cart.controller
FailedTo(op) ==
  CASE op = "updateCartItem" -> "Failed to update cart item"
    [] op = "removeCartItem" -> "Failed to remove cart item"
    [] OTHER -> "Failed to clear cart"

\* updateCartItem, removeCartItem, clearCart of controllers/cart.controller,
\* first await: `!userId` is answered 401; else prisma.carts.findUnique({
\* where: { user_id } }). The client generated from the Prisma schema (model
\* Cart) has no `carts`: the call throws a TypeError, which the catch turns
\* into the 500 of the handler; a client introspected from schema.sql has it.
FindCartsRow(c, op, userId, itemId, quantity, size) ==
  /\ CartFinished(c)
  /\ op \in {"updateCartItem", "removeCartItem", "clearCartItems"}
  /\ LET r == [IdleCartReq EXCEPT !.op = op,
                 !.pc = CASE op = "updateCartItem" -> "carts_update_item"
                          [] op = "removeCartItem" -> "carts_delete_item"
                          [] OTHER -> "carts_delete_many",
                 !.userId = userId, !.itemId = itemId, !.quantity = quantity,
                 !.size = size] IN
     \E generated \in BOOLEAN :
        cartReq' = [cartReq EXCEPT ![c] =
           IF userId = 0 THEN CartFailed(r, "User not authenticated")
           ELSE IF ~generated THEN CartFailed(r, FailedTo(op))
           ELSE IF carts[userId] = NoRow THEN CartFailed(r, "Cart not found")
           ELSE [r EXCEPT !.cart = carts[userId]]]
  /\ cartCalls' = cartCalls + 1
  /\ UNCHANGED <<ledgerVars, edgeVars, couponRes, products, carts, cartItems, nextItemId>>

\* updateCartItem: prisma.cart_items.update({ where: { id, cart_id }, data: {
\* quantity, size, color } }); with no such row of this cart the update
\* throws and the catch answers 500; the cart row is not written
UpdateCartItemWrite(c) ==
  /\ cartReq[c].pc = "carts_update_item"
  /\ LET r == cartReq[c] IN
     IF \E it \in cartItems : it.id = r.itemId /\ it.cartId = r.userId
     THEN LET it == CHOOSE x \in cartItems : x.id = r.itemId IN
          /\ cartItems' = (cartItems \ {it}) \cup
                {[it EXCEPT !.quantity = r.quantity, !.size = r.size]}
          /\ CartDone(c)
     ELSE /\ CartThrow(c, FailedTo(r.op))
          /\ UNCHANGED cartItems
  /\ UNCHANGED <<ledgerVars, edgeVars, couponRes, products, carts, nextItemId, cartCalls>>

\* removeCartItem: prisma.cart_items.delete({ where: { id, cart_id } }); with
\* no such row of this cart the delete throws and the catch answers 500
RemoveCartItemDelete(c) ==
  /\ cartReq[c].pc = "carts_delete_item"
  /\ LET r == cartReq[c] IN
     IF \E it \in cartItems : it.id = r.itemId /\ it.cartId = r.userId
     THEN /\ cartItems' = {it \in cartItems : it.id # r.itemId}
          /\ CartDone(c)
     ELSE /\ CartThrow(c, FailedTo(r.op))
          /\ UNCHANGED cartItems
  /\ UNCHANGED <<ledgerVars, edgeVars, couponRes, products, carts, nextItemId, cartCalls>>

\* clearCart of controllers/cart.controller: prisma.cart_items.deleteMany({
\* where: { cart_id } }); the cart row is not written
ClearCartDeleteMany(c) ==
  /\ cartReq[c].pc = "carts_delete_many"
  /\ cartItems' = {it \in cartItems : it.cartId # cartReq[c].userId}
  /\ CartDone(c)
  /\ UNCHANGED <<ledgerVars, edgeVars, couponRes, products, carts, nextItemId, cartCalls>>

\* ---------------------------------------------------------- product actions

\* updateProduct: prisma.product.update({ where: { id }, data: req.body }),
\* here with a body that gives a price; it throws for an id without a row
updateProduct(id, price) ==
  /\ products' = IF id \in DOMAIN products
                 THEN [products EXCEPT ![id].price = price]
                 ELSE products
  /\ UNCHANGED <<ledgerVars, edgeVars, couponRes, carts, cartItems, nextItemId, cartCalls, cartReq>>

\* ----------------------------------------------------------- order actions

IdleOrderReq ==
  [op |-> "none", pc |-> "idle", userId |-> 0, items |-> <<>>, totalAmount |-> 0,
   txOrder |-> NoRow, txItems |-> <<>>, orderId |-> 0, error |-> ""]

InitOrders ==
  /\ orders = {}
  /\ orderItems = {}
  /\ nextOrderId = 1
  /\ orderReq = IdleOrderReq

OrderFinished == orderReq.pc \in {"idle", "done", "failed"}

\* items.reduce((sum, item) => sum + (item.price * item.quantity), 0)
RECURSIVE TotalAmount(_)
TotalAmount(items) ==
  IF items = <<>> THEN 0
  ELSE Head(items).price * Head(items).quantity + TotalAmount(Tail(items))

\* the catch of createOrder: the answer is the AppError's status or 500
\* 'Failed to create order'; what the open transaction wrote is rolled back
OrderFailed(r, message) ==
  [IdleOrderReq EXCEPT !.op = r.op, !.pc = "failed", !.userId = r.userId,
                       !.orderId = r.orderId, !.error = message]

\* createOrder up to prisma.$transaction: the identity, the items, the total
CreateOrderBegin(userId, items) ==
  /\ OrderFinished
  /\ LET r == [IdleOrderReq EXCEPT !.op = "createOrder", !.userId = userId,
                                    !.items = items] IN
     orderReq' =
        IF userId = 0 THEN OrderFailed(r, "User not authenticated")
        ELSE IF Len(items) = 0
        THEN OrderFailed(r, "Order must contain at least one item")
        ELSE [r EXCEPT !.pc = "tx_order", !.totalAmount = TotalAmount(items)]
  /\ UNCHANGED <<ledgerVars, cartVars, couponRes, markAnswers, users, incoming,
                 orders, orderItems, nextOrderId>>

\* tx.order.create written straight to the table, outside any transaction
TxOrderCreateUntransacted ==
  /\ orderReq.pc = "tx_order"
  /\ LET row == [id |-> nextOrderId, userId |-> orderReq.userId,
                 status |-> "pending", totalAmount |-> orderReq.totalAmount] IN
     /\ orders' = orders \cup {row}
     /\ orderReq' = [orderReq EXCEPT !.pc = "tx_items", !.txOrder = row]
  /\ nextOrderId' = nextOrderId + 1
  /\ UNCHANGED <<ledgerVars, cartVars, couponRes, markAnswers, users, incoming, orderItems>>

\* tx.order.create: the row is written inside the transaction and is seen by
\* nobody else until the commit; the sequence of ids advances in any case
TxOrderCreate ==
  /\ orderReq.pc = "tx_order"
  /\ orderReq' = [orderReq EXCEPT !.pc = "tx_items",
        !.txOrder = [id |-> nextOrderId, userId |-> orderReq.userId,
                     status |-> "pending", totalAmount |-> orderReq.totalAmount]]
  /\ nextOrderId' = nextOrderId + 1
  /\ UNCHANGED <<ledgerVars, cartVars, couponRes, markAnswers, users, incoming, orders, orderItems>>

\* tx.orderItem.create of the next item of Promise.all(items.map(...)), inside
\* the transaction; productId is a foreign key, and a create that throws
\* rejects Promise.all, which rolls the transaction back
TxOrderItemCreate ==
  /\ orderReq.pc = "tx_items"
  /\ Len(orderReq.txItems) < Len(orderReq.items)
  /\ LET k == Len(orderReq.txItems) + 1
         item == orderReq.items[k] IN
     orderReq' =
        IF item.productId \notin DOMAIN products
        THEN OrderFailed(orderReq, "Failed to create order")
        ELSE [orderReq EXCEPT !.txItems = Append(@,
                [orderId |-> orderReq.txOrder.id, line |-> k,
                 productId |-> item.productId, quantity |-> item.quantity,
                 price |-> item.price])]
  /\ UNCHANGED <<ledgerVars, cartVars, couponRes, markAnswers, users, incoming,
                 orders, orderItems, nextOrderId>>

\* the transaction commits: the order and its items appear together; the
\* confirmation email (sendEmail only logs) and the 201 follow
TxOrderCommit ==
  /\ orderReq.pc = "tx_items"
  /\ Len(orderReq.txItems) = Len(orderReq.items)
  /\ orders' = orders \cup {orderReq.txOrder}
  /\ orderItems' = orderItems \cup
        {orderReq.txItems[k] : k \in 1..Len(orderReq.txItems)}
  /\ orderReq' = [IdleOrderReq EXCEPT !.op = "createOrder", !.pc = "done",
                                       !.userId = orderReq.userId]
  /\ UNCHANGED <<ledgerVars, cartVars, couponRes, markAnswers, users, incoming, nextOrderId>>

\* a gateway failure at an await inside the transaction: prisma.$transaction
\* rolls back and the catch answers 500
OrderGatewayFailure ==
  /\ ~OrderFinished
  /\ orderReq' = OrderFailed(orderReq, "Failed to create order")
  /\ UNCHANGED <<ledgerVars, cartVars, couponRes, markAnswers, users, incoming,
                 orders, orderItems, nextOrderId>>

\* prisma.order.findUnique({ where: { id } })
FindOrder(orderId) ==
  IF \E o \in orders : o.id = orderId
  THEN CHOOSE o \in orders : o.id = orderId
  ELSE NoRow

\* the answer is sent: the handler ends
OrderDone(r) ==
  [IdleOrderReq EXCEPT !.op = r.op, !.pc = "done", !.userId = r.userId]

\* prisma.order.update({ where: { id }, data: { status } })
UpdateOrderStatus(orderId, status) ==
  orders' = {IF o.id = orderId THEN [o EXCEPT !.status = status] ELSE o : o \in orders}

\* cancelOrder up to its update: the identity, prisma.order.findFirst({ where:
\* { id, userId } }), 'Order not found', and `order.status !== 'PENDING'`
CancelOrderFind(userId, orderId) ==
  /\ OrderFinished
  /\ LET r == [IdleOrderReq EXCEPT !.op = "cancelOrder", !.userId = userId,
                                    !.orderId = orderId]
         order == FindOrder(orderId) IN
     orderReq' =
        IF userId = 0 THEN OrderFailed(r, "User not authenticated")
        ELSE IF order = NoRow \/ order.userId # userId
        THEN OrderFailed(r, "Order not found")
        ELSE IF order.status # "PENDING"
        THEN OrderFailed(r, "Cannot cancel order in current status")
        ELSE [r EXCEPT !.pc = "cancel_update"]
  /\ UNCHANGED <<ledgerVars, cartVars, couponRes, markAnswers, users, incoming,
                 orders, orderItems, nextOrderId>>

\* cancelOrder: prisma.order.update({ data: { status: 'CANCELLED' } })
CancelOrderUpdate ==
  /\ orderReq.pc = "cancel_update"
  /\ UpdateOrderStatus(orderReq.orderId, "CANCELLED")
  /\ orderReq' = OrderDone(orderReq)
  /\ UNCHANGED <<ledgerVars, cartVars, couponRes, markAnswers, users, incoming,
                 orderItems, nextOrderId>>

\* processPayment up to its update: prisma.order.findUnique and 'Order not
\* found'; neither the owner nor the status of the order is looked at
ProcessPaymentFind(userId, orderId) ==
  /\ OrderFinished
  /\ LET r == [IdleOrderReq EXCEPT !.op = "processPayment", !.userId = userId,
                                    !.orderId = orderId] IN
     orderReq' =
        IF FindOrder(orderId) = NoRow THEN OrderFailed(r, "Order not found")
        ELSE [r EXCEPT !.pc = "payment_update"]
  /\ UNCHANGED <<ledgerVars, cartVars, couponRes, markAnswers, users, incoming,
                 orders, orderItems, nextOrderId>>

\* processPayment: prisma.order.update({ data: { status: 'paid' } })
ProcessPaymentUpdate ==
  /\ orderReq.pc = "payment_update"
  /\ UpdateOrderStatus(orderReq.orderId, "paid")
  /\ orderReq' = OrderDone(orderReq)
  /\ UNCHANGED <<ledgerVars, cartVars, couponRes, markAnswers, users, incoming,
                 orderItems, nextOrderId>>

\* processRefund up to its update: prisma.order.findUnique, 'Order not
\* found', `order.status !== 'paid'` and the amount against the order total
ProcessRefundFind(userId, orderId, amount) ==
  /\ OrderFinished
  /\ LET r == [IdleOrderReq EXCEPT !.op = "processRefund", !.userId = userId,
                                    !.orderId = orderId]
         order == FindOrder(orderId) IN
     orderReq' =
        IF order = NoRow THEN OrderFailed(r, "Order not found")
        ELSE IF order.status # "paid" THEN OrderFailed(r, "Order is not paid")
        ELSE IF amount > order.totalAmount
        THEN OrderFailed(r, "Refund amount cannot exceed order total")
        ELSE [r EXCEPT !.pc = "refund_update"]
  /\ UNCHANGED <<ledgerVars, cartVars, couponRes, markAnswers, users, incoming,
                 orders, orderItems, nextOrderId>>

\* processRefund: prisma.order.update({ data: { status: 'refunded' } })
ProcessRefundUpdate ==
  /\ orderReq.pc = "refund_update"
  /\ UpdateOrderStatus(orderReq.orderId, "refunded")
  /\ orderReq' = OrderDone(orderReq)
  /\ UNCHANGED <<ledgerVars, cartVars, couponRes, markAnswers, users, incoming,
                 orderItems, nextOrderId>>

\* ---------------------------------------------------------- coupon actions

NoAnswer == [code |-> <<"NONE", 0>>, orderAmount |-> 0, error |-> "",
             isValid |-> FALSE, discountAmount |-> 0, finalAmount |-> 0]

InitCoupon == couponRes = NoAnswer

FindCoupon(code) ==
  IF \E c \in coupons : c.code = code
  THEN CHOOSE c \in coupons : c.code = code
  ELSE NoRow

\* Amounts of the answer are kept in millionths of the currency unit, in
\* which the product of an amount in cents and a value in hundredths divided
\* by 100 is a whole number: (cents/100) * (hundredths/100) / 100.
Millionths(cents) == cents * 10000

\* discountAmount with the two branches of the conditional exchanged
DiscountAmountSwapped(coupon, orderAmount) ==
  IF coupon.type = "Percentage"
  THEN Millionths(coupon.value)
  ELSE orderAmount * coupon.value

\* coupon.type === 'Percentage' ? (orderAmount * Number(coupon.value)) / 100
\*                              : Number(coupon.value)
DiscountAmount(coupon, orderAmount) ==
  IF coupon.type = "Percentage"
  THEN orderAmount * coupon.value
  ELSE Millionths(coupon.value)

\* createCoupon: findUnique by code, 409 when it exists, else create
createCoupon(body) ==
  /\ FindCoupon(body.code) = NoRow
  /\ coupons' = coupons \cup
       {[code |-> body.code, value |-> body.value, type |-> body.type,
         expiresAt |-> body.expiresAt, isUsed |-> FALSE]}
  /\ UNCHANGED <<cartVars, edgeVars, enrollments, transactions, now, ledgerReq, couponRes>>

\* validateCoupon with the expiry looked at before isUsed
validateCouponExpiredFirst(code, orderAmount) ==
  /\ LET coupon == FindCoupon(code)
         answer == [NoAnswer EXCEPT !.code = code, !.orderAmount = orderAmount] IN
     couponRes' =
        IF coupon = NoRow THEN [answer EXCEPT !.error = "Coupon not found"]
        ELSE IF now > coupon.expiresAt
        THEN [answer EXCEPT !.error = "Coupon has expired"]
        ELSE IF coupon.isUsed
        THEN [answer EXCEPT !.error = "Coupon has already been used"]
        ELSE [answer EXCEPT !.isValid = TRUE,
                !.discountAmount = DiscountAmount(coupon, orderAmount),
                !.finalAmount = Millionths(orderAmount)
                                  - DiscountAmount(coupon, orderAmount)]
  /\ UNCHANGED <<cartVars, edgeVars, enrollments, transactions, coupons, now, ledgerReq>>

\* validateCoupon: not found, used, expired, else the discount
validateCoupon(code, orderAmount) ==
  /\ LET coupon == FindCoupon(code)
         answer == [NoAnswer EXCEPT !.code = code, !.orderAmount = orderAmount] IN
     couponRes' =
        IF coupon = NoRow THEN [answer EXCEPT !.error = "Coupon not found"]
        ELSE IF coupon.isUsed
        THEN [answer EXCEPT !.error = "Coupon has already been used"]
        ELSE IF now > coupon.expiresAt
        THEN [answer EXCEPT !.error = "Coupon has expired"]
        ELSE [answer EXCEPT !.isValid = TRUE,
                !.discountAmount = DiscountAmount(coupon, orderAmount),
                !.finalAmount = Millionths(orderAmount)
                                  - DiscountAmount(coupon, orderAmount)]
  /\ UNCHANGED <<cartVars, edgeVars, enrollments, transactions, coupons, now, ledgerReq>>

\* errorHandler: an AppError is answered with its message and statusCode,
\* any other error with 500 'Internal server error'
errorHandler(err) ==
  IF err.name = "AppError"
  THEN [statusCode |-> err.statusCode, message |-> err.message]
  ELSE [statusCode |-> 500, message |-> "Internal server error"]

\* markCouponAsUsed: prisma.coupon.update({ where: { code }, data: { isUsed:
\* true } }) and res.json(coupon), whatever isUsed was; for an unknown code
\* the update throws the gateway's record-not-found error, nothing is
\* written and the error handler answers
markCouponAsUsed(code) ==
  /\ coupons' = {IF c.code = code THEN [c EXCEPT !.isUsed = TRUE] ELSE c : c \in coupons}
  /\ markAnswers' = Append(markAnswers,
        IF FindCoupon(code) # NoRow
        THEN [code |-> code, statusCode |-> 200, message |-> ""]
        ELSE [code |-> code] @@
             errorHandler([name |-> "PrismaClientKnownRequestError",
                           statusCode |-> 0, message |-> "P2025"]))
  /\ UNCHANGED <<cartVars, users, orderVars, incoming, enrollments, transactions,
                 now, ledgerReq, couponRes>>

\* deleteCoupon: prisma.coupon.delete({ where: { code } })
deleteCoupon(code) ==
  /\ coupons' = {c \in coupons : c.code # code}
  /\ UNCHANGED <<cartVars, edgeVars, enrollments, transactions, now, ledgerReq, couponRes>>

\* ------------------------------------------------------ specifications

\* the accounts of the users the requests of the model come from
InitAccounts == users = {[id |-> u, email |-> <<"user", u>>] : u \in Users}

NoRequest == [route |-> "none", verified |-> FALSE, userId |-> 0, status |-> 0]

InitRouter == incoming = NoRequest /\ markAnswers = <<>>

Init ==
  /\ InitLedger /\ InitCart /\ InitCoupon
  /\ InitAccounts /\ InitOrders /\ InitRouter

\* the tables are kept within the bounds of the model
RoomForTransaction(max) == Len(transactions) < max
RoomForMark == Len(markAnswers) < MaxMarks
RoomForCoupon == Cardinality(coupons) < MaxCoupons

\* The ledger under one request at a time: the steps of the request in flight
\* interleave with the single-statement handlers (createTransaction,
\* updateTransactionStatus), and the gateway may fail at any await.
NextLedger ==
  \/ \E userId \in Users : EnrollFind("q1", userId)
  \/ EnrollCreate("q1")
  \/ \E userId \in Users : StatusFindEnrollment("q1", "getLoyaltyStatus", userId, 0, 0)
  \/ \E userId \in Users, points \in PointsInputs, rewardId \in RewardIdInputs :
        StatusFindEnrollment("q1", "redeemPoints", userId, points, rewardId)
  \/ StatusFindTransactions("q1")
  \/ RoomForTransaction(MaxTxns) /\ RedeemCreateTransaction("q1")
  \/ RoomForCoupon /\ RedeemCreateCoupon("q1")
  \/ GatewayFailure("q1")
  \/ \E body \in TransactionInputs :
        RoomForTransaction(MaxTxns) /\ createTransaction(body)
  \/ \E id \in 1..MaxTxns, status \in StatusInputs : updateTransactionStatus(id, status)
  \/ Tick

SpecLedger == Init /\ [][NextLedger]_vars

\* The routes that answer with the loyalty status or after it, one request at
\* a time and none failing at the gateway.
NextAnswers ==
  \/ \E userId \in Users : EnrollFind("q1", userId)
  \/ EnrollCreate("q1")
  \/ \E userId \in Users : StatusFindEnrollment("q1", "getLoyaltyStatus", userId, 0, 0)
  \/ \E userId \in Users : StatusFindEnrollment("q1", "getLoyaltyBanner", userId, 0, 0)
  \/ \E userId \in Users, points \in PointsInputs, rewardId \in RewardIdInputs :
        StatusFindEnrollment("q1", "redeemPoints", userId, points, rewardId)
  \/ StatusFindTransactions("q1")
  \/ RoomForTransaction(MaxTxns) /\ RedeemCreateTransaction("q1")
  \/ RoomForCoupon /\ RedeemCreateCoupon("q1")
  \/ \E body \in TransactionInputs :
        RoomForTransaction(MaxTxns) /\ createTransaction(body)
  \/ Tick

SpecAnswers == Init /\ [][NextAnswers]_vars

\* Two requests of one user in flight at once: every await of one may fall
\* between two awaits of the other.  The gateway does not fail here.
RaceUsers == {1}
RaceInputs == {b \in TransactionInputs : b.userId \in RaceUsers /\ b.type = "Earned"}
ActiveRewards == {w \in LoyaltyRewards : w.isActive}

NextRace ==
  \/ \E q \in LedgerReqs, userId \in Users : EnrollFind(q, userId)
  \/ \E q \in LedgerReqs : EnrollCreate(q)
  \/ \E q \in LedgerReqs, userId \in RaceUsers, w \in ActiveRewards :
        StatusFindEnrollment(q, "redeemPoints", userId, w.pointsRequired, w.id)
  \/ \E q \in LedgerReqs : StatusFindTransactions(q)
  \/ \E q \in LedgerReqs :
        RoomForTransaction(MaxRaceTxns) /\ RedeemCreateTransaction(q)
  \/ \E q \in LedgerReqs : RoomForCoupon /\ RedeemCreateCoupon(q)
  \/ \E body \in RaceInputs :
        RoomForTransaction(MaxRaceTxns) /\ createTransaction(body)
  \/ Tick

SpecRace == Init /\ [][NextRace]_vars

RoomForItem == nextItemId <= MaxItems
RoomForCall == cartCalls < MaxCartCalls

\* the steps of the cart handlers of request c
CartStep(c, callers) ==
  \/ \E userId \in callers, productId \in ProductIdInputs,
        quantity \in QuantityInputs, size \in SizeInputs :
        RoomForCall /\ AddItemFindCart(c, userId, productId, quantity, size)
  \/ AddItemCreateCart(c)
  \/ RoomForItem /\ AddItemCreateItem(c)
  \/ AddItemUpdateCart(c)
  \/ \E userId \in callers, itemId \in 1..MaxItems,
        quantity \in QuantityInputs, size \in SizeInputs :
        RoomForCall /\ FindCart(c, "updateItem", userId, itemId, quantity, size)
  \/ \E userId \in callers, itemId \in 1..MaxItems :
        RoomForCall /\ FindCart(c, "removeItem", userId, itemId, 0, "null")
  \/ \E userId \in callers : RoomForCall /\ FindCart(c, "clearCart", userId, 0, 0, "null")
  \/ FindItem(c)
  \/ UpdateItemWrite(c)
  \/ UpdateItemUpdateCart(c)
  \/ RemoveItemDelete(c)
  \/ RemoveItemUpdateCart(c)
  \/ ClearCartDeleteItems(c)
  \/ ClearCartUpdateCart(c)

\* One cart request at a time, each of whose awaits may fail at the gateway.
NextCart ==
  \/ CartStep("c1", Users)
  \/ CartGatewayFailure("c1")

SpecCart == Init /\ [][NextCart]_vars

\* Two requests on the cart of one user in flight at once; no gateway failure.
NextCartRace == \E c \in CartReqs : CartStep(c, RaceUsers)

SpecCartRace == Init /\ [][NextCartRace]_vars

\* One cart request at a time, none of which fails at the gateway.
NextCartSeq == CartStep("c1", Users)

SpecCartSeq == Init /\ [][NextCartSeq]_vars

\* Nothing but addItem calls of the mounted controller, one at a time.
NextAddItem ==
  \/ \E userId \in Users, productId \in ProductIdInputs,
        quantity \in QuantityInputs, size \in SizeInputs :
        RoomForCall /\ AddItemFindCart("c1", userId, productId, quantity, size)
  \/ AddItemCreateCart("c1")
  \/ RoomForItem /\ AddItemCreateItem("c1")
  \/ AddItemUpdateCart("c1")

SpecAddItem == Init /\ [][NextAddItem]_vars

\* bodies of PUT /api/products/:id: the new price in cents
PriceInputs == {1200}

\* One cart request at a time, and the catalogue changing a price meanwhile.
NextCartPrice ==
  \/ CartStep("c1", {1})
  \/ \E id \in ProductIdInputs, price \in PriceInputs : updateProduct(id, price)

SpecCartPrice == Init /\ [][NextCartPrice]_vars

\* the sizes of the bodies of the cart routes of controllers/cart.controller:
\* none, a size, and the empty string
MergeSizeInputs == SizeInputs \cup {""}
MergeQuantityInputs == {1, 2, 4}

\* The handlers of controllers/cart.controller, one request at a time, on
\* carts that either controller's add may have created.
NextCartMerge ==
  \/ \E userId \in Users, productId \in ProductIdInputs,
        quantity \in MergeQuantityInputs, size \in MergeSizeInputs :
        RoomForCall /\ AddCartItemFindProduct("c1", userId, productId, quantity, size)
  \/ AddCartItemFindCart("c1")
  \/ AddCartItemCreateCart("c1")
  \/ AddCartItemFindExisting("c1")
  \/ AddCartItemUpdateExisting("c1")
  \/ RoomForItem /\ AddCartItemCreate("c1")
  \/ \E userId \in Users, itemId \in 1..MaxItems,
        quantity \in MergeQuantityInputs, size \in MergeSizeInputs :
        RoomForCall /\ FindCartsRow("c1", "updateCartItem", userId, itemId, quantity, size)
  \/ \E userId \in Users, itemId \in 1..MaxItems :
        RoomForCall /\ FindCartsRow("c1", "removeCartItem", userId, itemId, 0, "null")
  \/ \E userId \in Users :
        RoomForCall /\ FindCartsRow("c1", "clearCartItems", userId, 0, 0, "null")
  \/ UpdateCartItemWrite("c1")
  \/ RemoveCartItemDelete("c1")
  \/ ClearCartDeleteMany("c1")

SpecCartMerge == Init /\ [][NextCartMerge]_vars

\* The coupon endpoints, each a single statement against the gateway.
NextCoupon ==
  \/ \E body \in CouponInputs : RoomForCoupon /\ createCoupon(body)
  \/ \E code \in CodeInputs, orderAmount \in OrderAmountInputs :
        validateCoupon(code, orderAmount)
  \/ \E code \in CodeInputs : RoomForMark /\ markCouponAsUsed(code)
  \/ \E code \in CodeInputs : deleteCoupon(code)
  \/ Tick

SpecCoupon == Init /\ [][NextCoupon]_vars

\* The status read over enrollments as the operator's tooling may have left
\* them: no handler changes the tier of an enrollment once it is written, so
\* the enrollments of the two users start in any tier of the table.
TierNames == {t.name : t \in LoyaltyTiers}

InitStatus ==
  /\ InitCart /\ InitCoupon /\ InitAccounts /\ InitOrders /\ InitRouter
  /\ enrollments \in
       {{[userId |-> u, tierName |-> f[u]] : u \in Users} : f \in [Users -> TierNames]}
  /\ transactions = <<>>
  /\ coupons = {}
  /\ now = 0
  /\ ledgerReq = [q \in LedgerReqs |-> IdleReq]

NextStatus ==
  \/ \E userId \in Users : StatusFindEnrollment("q1", "getLoyaltyStatus", userId, 0, 0)
  \/ StatusFindTransactions("q1")
  \/ GatewayFailure("q1")
  \/ \E body \in TransactionInputs :
        RoomForTransaction(MaxTxns) /\ createTransaction(body)

SpecStatus == InitStatus /\ [][NextStatus]_vars

\* createOrder, one request at a time, the gateway failing at any await of
\* the transaction
RoomForOrder == nextOrderId <= MaxOrders

NextOrder ==
  \/ \E userId \in Users, items \in OrderItemsInputs : CreateOrderBegin(userId, items)
  \/ RoomForOrder /\ TxOrderCreate
  \/ TxOrderItemCreate
  \/ TxOrderCommit
  \/ OrderGatewayFailure

SpecOrder == Init /\ [][NextOrder]_vars

\* the amounts of the refund bodies, in cents
RefundAmountInputs == {100, 100000}

\* Orders and their payments, one request at a time and none failing at the
\* gateway.  The update of cancelOrder is left out: createOrder writes the
\* status 'pending' and no handler writes 'PENDING', so no request ever stands
\* at that update.
NextPayment ==
  \/ \E userId \in Users, items \in OrderItemsInputs : CreateOrderBegin(userId, items)
  \/ RoomForOrder /\ TxOrderCreate
  \/ TxOrderItemCreate
  \/ TxOrderCommit
  \/ \E userId \in Users, orderId \in 1..MaxOrders : CancelOrderFind(userId, orderId)
  \/ \E userId \in Users, orderId \in 1..MaxOrders : ProcessPaymentFind(userId, orderId)
  \/ ProcessPaymentUpdate
  \/ \E userId \in Users, orderId \in 1..MaxOrders, amount \in RefundAmountInputs :
        ProcessRefundFind(userId, orderId, amount)
  \/ ProcessRefundUpdate

SpecPayment == Init /\ [][NextPayment]_vars

\* ----------------------------------------------------------------- router

\* the Authorization header of a request: none, a token whose signature
\* jwt.verify rejects, or a token signed for the user id it carries
TokenInputs == {<<"none", 0>>, <<"forged", 1>>, <<"signed", 1>>}

\* authenticate: the id of req.user when jwt.verify accepts the token, and 0
\* when the middleware answers 401 ('No token provided', 'Invalid token')
authenticate(token) == IF token[1] = "signed" THEN token[2] ELSE 0

\* the routes of the loyalty router, the cart router and registration;
\* protected tells whether authenticate stands before the handler
Routes ==
  { [route |-> "GET /loyalty/status", protected |-> TRUE],
    [route |-> "POST /loyalty/transactions", protected |-> FALSE],
    [route |-> "PATCH /loyalty/transactions/:id/status", protected |-> FALSE],
    [route |-> "POST /loyalty/redeem", protected |-> TRUE],
    [route |-> "POST /loyalty/enroll", protected |-> TRUE],
    [route |-> "POST /cart/items", protected |-> TRUE],
    [route |-> "PUT /cart/items/:id", protected |-> TRUE],
    [route |-> "DELETE /cart/items/:id", protected |-> TRUE],
    [route |-> "DELETE /cart", protected |-> TRUE],
    [route |-> "POST /auth/register", protected |-> FALSE] }

\* A request reaches its router once the one before it has been answered.
\* On a protected route the middleware answers 401 or sets req.user; on the
\* other routes nothing sets req.user, whatever token the request carries.
Receive(route, token) ==
  /\ \A q \in LedgerReqs : Finished(q)
  /\ \A c \in CartReqs : CartFinished(c)
  /\ incoming' =
       [route |-> route.route,
        verified |-> authenticate(token) # 0,
        userId |-> IF route.protected THEN authenticate(token) ELSE 0,
        status |-> IF route.protected /\ authenticate(token) = 0 THEN 401 ELSE 0]
  /\ UNCHANGED <<ledgerVars, cartVars, couponRes, markAnswers, users, orderVars>>

\* the request at hand has passed the middleware of the named route
Routed(route) == incoming.route = route /\ incoming.status = 0

\* The loyalty and cart handlers behind their routers, one request at a time:
\* each handler runs with the req.user the router has left on the request.
\* POST /loyalty/transactions never has a req.user, so no route puts Earned
\* points on the ledger and no redemption gets past its balance check: the
\* two writes of redeemPoints are not steps of this specification.
NextRouter ==
  \/ \E route \in Routes, token \in TokenInputs : Receive(route, token)
  \/ Routed("POST /auth/register") /\ RoomForTransaction(MaxTxns)
        /\ \E email \in EmailInputs : registerUser(email, TRUE)
  \/ Routed("GET /loyalty/status")
        /\ StatusFindEnrollment("q1", "getLoyaltyStatus", incoming.userId, 0, 0)
  \/ Routed("POST /loyalty/redeem")
        /\ \E w \in LoyaltyRewards :
              StatusFindEnrollment("q1", "redeemPoints", incoming.userId,
                                   w.pointsRequired, w.id)
  \/ Routed("POST /loyalty/enroll") /\ EnrollFind("q1", incoming.userId)
  \/ Routed("POST /loyalty/transactions") /\ RoomForTransaction(MaxTxns)
        /\ \E body \in TransactionInputs :
              createTransaction([body EXCEPT !.userId = incoming.userId])
  \/ Routed("PATCH /loyalty/transactions/:id/status")
        /\ \E id \in 1..MaxTxns, status \in StatusInputs :
              updateTransactionStatus(id, status)
  \/ Routed("POST /cart/items") /\ RoomForCall
        /\ \E productId \in ProductIdInputs, quantity \in QuantityInputs :
              AddItemFindCart("c1", incoming.userId, productId, quantity, "null")
  \/ Routed("PUT /cart/items/:id") /\ RoomForCall
        /\ \E itemId \in 1..MaxItems, quantity \in QuantityInputs :
              FindCart("c1", "updateItem", incoming.userId, itemId, quantity, "null")
  \/ Routed("DELETE /cart/items/:id") /\ RoomForCall
        /\ \E itemId \in 1..MaxItems :
              FindCart("c1", "removeItem", incoming.userId, itemId, 0, "null")
  \/ Routed("DELETE /cart") /\ RoomForCall
        /\ FindCart("c1", "clearCart", incoming.userId, 0, 0, "null")
  \/ EnrollCreate("q1")
  \/ StatusFindTransactions("q1")
  \/ AddItemCreateCart("c1")
  \/ RoomForItem /\ AddItemCreateItem("c1")
  \/ AddItemUpdateCart("c1")
  \/ FindItem("c1")
  \/ UpdateItemWrite("c1")
  \/ UpdateItemUpdateCart("c1")
  \/ RemoveItemDelete("c1")
  \/ RemoveItemUpdateCart("c1")
  \/ ClearCartDeleteItems("c1")
  \/ ClearCartUpdateCart("c1")

SpecRouter == Init /\ [][NextRouter]_vars

\* The three ways into the loyalty program: the enroll endpoint, registration
\* and social login, next to the status read; the gateway may fail at any await.
NextEnroll ==
  \/ \E userId \in Users : EnrollFind("q1", userId)
  \/ EnrollCreate("q1")
  \/ \E email \in EmailInputs, joinLoyalty \in BOOLEAN :
        RoomForTransaction(MaxTxns) /\ registerUser(email, joinLoyalty)
  \/ \E email \in EmailInputs, joinLoyalty \in BOOLEAN :
        SocialLoginFind("q1", email, joinLoyalty)
  \/ SocialLoginCreateUser("q1")
  \/ RoomForTransaction(MaxTxns) /\ SocialLoginCreateTransaction("q1")
  \/ \E userId \in Users : StatusFindEnrollment("q1", "getLoyaltyStatus", userId, 0, 0)
  \/ StatusFindTransactions("q1")
  \/ GatewayFailure("q1")
  \/ \E body \in TransactionInputs :
        RoomForTransaction(MaxTxns) /\ createTransaction(body)

SpecEnroll == Init /\ [][NextEnroll]_vars

\* ------------------------------------------------------------ properties

\* The balance as section 8 of the specification states it: the Earned points
\* of the user's rows minus the Redeemed, Cancelled and Expired points of the
\* user's rows, summed over the rows of the table one by one.
RECURSIVE SumOfPoints(_)
SumOfPoints(ids) ==
  IF ids = {} THEN 0
  ELSE LET id == CHOOSE i \in ids : TRUE IN
       transactions[id].points + SumOfPoints(ids \ {id})

RowsOfType(userId, types) ==
  {i \in 1..Len(transactions) :
     transactions[i].userId = userId /\ transactions[i].type \in types}

LedgerBalance(userId) ==
  SumOfPoints(RowsOfType(userId, {"Earned"}))
    - SumOfPoints(RowsOfType(userId, {"Redeemed", "Cancelled", "Expired"}))

\* C1: whenever a request reads the user's transactions, the balance it
\* reports (points.available of getLoyaltyStatus) and the balance redeemPoints
\* compares with the requested points is the sum of +points over the user's
\* Earned rows and -points over the user's Redeemed, Cancelled and Expired
\* rows, whatever their status; rows of other users do not contribute.
C1_BalanceIsLedgerSum ==
  [][\A q \in LedgerReqs :
       ledgerReq[q].pc = "status_transactions" =>
         LET r == ledgerReq[q]
             balance == LedgerBalance(r.userId) IN
         /\ ledgerReq'[q].pc \in {"done", "redeem_transaction"} =>
               ledgerReq'[q].totalPoints = balance
         /\ ledgerReq'[q].pc = "redeem_transaction" => balance >= r.points
         /\ ledgerReq'[q].error = "Insufficient points" => balance < r.points
    ]_ledgerVars

\* a status answered 200 for user 1 from a ledger that holds an Earned row and
\* a Cancelled or Expired row of the user, one of them not Completed
C1_Witness ==
  /\ ledgerReq["q1"].op = "getLoyaltyStatus"
  /\ ledgerReq["q1"].pc = "done"
  /\ ledgerReq["q1"].userId = 1
  /\ ledgerReq["q1"].totalPoints = 150
  /\ LedgerBalance(1) = 150
  /\ RowsOfType(1, {"Cancelled", "Expired"}) # {}
  /\ \E i \in 1..Len(transactions) : transactions[i].status # "Completed"

\* C2: two redemptions of one user that each read a balance equal to the
\* reward's pointsRequired do not both append their Redeemed row and issue
\* their coupon unless the ledger covers both (the balance stays >= 0).
C2_AtMostOneRedeemSucceeds ==
  \A qa, qb \in LedgerReqs :
    ( /\ qa # qb
      /\ ledgerReq[qa].pc = "coupon_issued" /\ ledgerReq[qb].pc = "coupon_issued"
      /\ ledgerReq[qa].userId = ledgerReq[qb].userId
      /\ ledgerReq[qa].totalPoints = FindReward(ledgerReq[qa].rewardId).pointsRequired
      /\ ledgerReq[qb].totalPoints = FindReward(ledgerReq[qb].rewardId).pointsRequired )
    => LedgerBalance(ledgerReq[qa].userId) >= 0

\* C3: when no redeemPoints request stands between its two writes, every
\* Redeemed row written by a redemption has its coupon and every loyalty
\* coupon has its row: there are as many of the ones as of the others.
RedemptionRows ==
  {i \in 1..Len(transactions) : transactions[i].description = "redeemPoints"}

LoyaltyCoupons == {c \in coupons : c.code[1] = "LOYALTY"}

C3_RedeemAtomic ==
  (\A q \in LedgerReqs : ledgerReq[q].pc # "redeem_coupon")
    => Cardinality(RedemptionRows) = Cardinality(LoyaltyCoupons)

\* C6: a redemption goes on to its writes only if the balance is at least the
\* reward's pointsRequired, and the Redeemed row it appends carries the
\* reward's pointsRequired.
C6_RedeemCostsRewardPoints ==
  [][\A q \in LedgerReqs :
       LET r == ledgerReq[q]
           reward == FindReward(r.rewardId) IN
       /\ (r.pc = "status_transactions" /\ ledgerReq'[q].pc = "redeem_transaction")
             => LedgerBalance(r.userId) >= reward.pointsRequired
       /\ (r.pc = "redeem_transaction" /\ ledgerReq'[q].pc = "redeem_coupon")
             => transactions'[Len(transactions')].points = reward.pointsRequired
    ]_ledgerVars

\* C7: once user 1 has enrolled, earned 250 points and redeemed the reward
\* that costs 200, the balance is 50 and there is exactly one coupon, unused,
\* which expires validityDays days after its redemption.
C7_EndToEnd ==
  ( /\ \E e \in enrollments : e.userId = 1
    /\ Len(transactions) = 2
    /\ transactions[1] = [userId |-> 1, type |-> "Earned", points |-> 250,
                          description |-> "body", status |-> "Completed"]
    /\ transactions[2].userId = 1
    /\ transactions[2].description = "redeemPoints"
    /\ ledgerReq["q1"].pc = "coupon_issued"
    /\ FindReward(ledgerReq["q1"].rewardId).pointsRequired = 200 )
  => /\ LedgerBalance(1) = 50
     /\ Cardinality(coupons) = 1
     /\ \A c \in coupons :
          /\ ~c.isUsed
          /\ \E t \in 0..now :
               /\ c.code = LoyaltyCode(t)
               /\ c.expiresAt = t + FindReward(ledgerReq["q1"].rewardId).validityDays * MsPerDay

RECURSIVE SumOverItems(_, _)
SumOverItems(items, column) ==
  IF items = {} THEN 0
  ELSE LET it == CHOOSE x \in items : TRUE IN
       products[it.productId][column] * it.quantity
         + SumOverItems(items \ {it}, column)

ItemsOf(userId) == {it \in cartItems : it.cartId = userId}

\* C4: once every request on the cart has completed, cart.subtotal is the sum
\* of product price x quantity over the cart's items.
C4_SubtotalMatchesItems ==
  (\A c \in CartReqs : CartFinished(c)) =>
     \A userId \in Users :
        carts[userId] # NoRow =>
           carts[userId].subtotal = SumOverItems(ItemsOf(userId), "price")

\* C5: a cart request that has ended, failed ones included, leaves no item
\* written without the matching aggregates: subtotal, total and
\* estimatedLoyaltyPoints agree with the items of the cart.
C5_CartWriteAllOrNothing ==
  CartFinished("c1") =>
     \A userId \in Users :
        IF carts[userId] = NoRow THEN ItemsOf(userId) = {}
        ELSE /\ carts[userId].subtotal = SumOverItems(ItemsOf(userId), "price")
             /\ carts[userId].total = SumOverItems(ItemsOf(userId), "price")
             /\ carts[userId].estimatedLoyaltyPoints
                  = SumOverItems(ItemsOf(userId), "loyaltyPoints")

\* C9: an addItem whose quantity exceeds the stock of its product fails before
\* it inserts the item: no such request stands at or after the item insert.
C9_AddItemOverStockRejected ==
  \A c \in CartReqs :
     LET r == cartReq[c] IN
     ( /\ r.op = "addItem"
       /\ r.productId \in DOMAIN products
       /\ r.quantity > products[r.productId].stock )
     => r.pc \notin {"add_create_item", "add_update_cart"}

\* C10: validate of a coupon that exists, is unused and has not expired
\* answers isValid = true, discountAmount = orderAmount x value / 100 for a
\* Percentage coupon and value for a Fixed coupon, and finalAmount =
\* orderAmount - discountAmount; Fixed 5.00 on 20.00 gives 5.00 and 15.00,
\* Percentage 10 on 100.00 gives 10.00 and 90.00.
C10_ValidateDiscount ==
  [][ \A code \in CodeInputs :
        LET coupon == FindCoupon(code)
            answer == couponRes' IN
        ( /\ couponRes' # couponRes
          /\ answer.code = code
          /\ coupon # NoRow
          /\ ~coupon.isUsed
          /\ ~(now > coupon.expiresAt)
          /\ coupon.type \in {"Percentage", "Fixed"} )
        => /\ answer.isValid
           /\ answer.error = ""
           /\ coupon.type = "Percentage" =>
                 answer.discountAmount * 100
                    = (answer.orderAmount * 100) * coupon.value
           /\ coupon.type = "Fixed" =>
                 answer.discountAmount = coupon.value * 10000
           /\ answer.finalAmount
                 = answer.orderAmount * 10000 - answer.discountAmount
           /\ (coupon.type = "Fixed" /\ coupon.value = 500
                 /\ answer.orderAmount = 2000)
                => answer.discountAmount = 5000000 /\ answer.finalAmount = 15000000
           /\ (coupon.type = "Percentage" /\ coupon.value = 1000
                 /\ answer.orderAmount = 10000)
                => answer.discountAmount = 10000000 /\ answer.finalAmount = 90000000
    ]_vars

\* the two examples of the claim have been answered: Fixed 5.00 on 20.00 ...
C10_Witness ==
  /\ couponRes.isValid
  /\ couponRes.code = <<"SAVE", 5>>
  /\ couponRes.orderAmount = 2000
  /\ couponRes.discountAmount = 5000000
  /\ couponRes.finalAmount = 15000000
  /\ \E c \in coupons : c.code = <<"SAVE", 5>> /\ c.type = "Fixed" /\ ~c.isUsed

\* C11: validate answers 'Coupon not found' for a code without a row, 'Coupon
\* has already been used' for a row with isUsed (expired or not), 'Coupon has
\* expired' for an unused row with now > expiresAt, and is valid otherwise
\* (now = expiresAt included); the step leaves the coupons table as it was.
C11_ValidateErrors ==
  [][ couponRes' # couponRes =>
        LET coupon == FindCoupon(couponRes'.code)
            answer == couponRes' IN
        /\ coupons' = coupons
        /\ coupon = NoRow =>
              answer.error = "Coupon not found" /\ ~answer.isValid
        /\ (coupon # NoRow /\ coupon.isUsed) =>
              answer.error = "Coupon has already been used" /\ ~answer.isValid
        /\ (coupon # NoRow /\ ~coupon.isUsed /\ now > coupon.expiresAt) =>
              answer.error = "Coupon has expired" /\ ~answer.isValid
        /\ (coupon # NoRow /\ ~coupon.isUsed /\ now <= coupon.expiresAt) =>
              answer.error = "" /\ answer.isValid
    ]_vars

\* a coupon that is both used and past its expiry has been answered
\* 'Coupon has already been used'
C11_Witness ==
  /\ couponRes.error = "Coupon has already been used"
  /\ \E c \in coupons :
       c.code = couponRes.code /\ c.isUsed /\ now > c.expiresAt

\* C20: in every state in which no enrollment request is between two of its
\* writes, a user has an enrollment row if and only if the ledger holds a
\* zero-point Earned row of that user.
HasEnrollment(userId) == \E e \in enrollments : e.userId = userId

HasInitialTransaction(userId) ==
  \E i \in 1..Len(transactions) :
     /\ transactions[i].userId = userId
     /\ transactions[i].type = "Earned"
     /\ transactions[i].points = 0

C20_EnrollmentHasInitialTransaction ==
  (\A q \in LedgerReqs : Finished(q)) =>
     \A u \in users : HasEnrollment(u.id) <=> HasInitialTransaction(u.id)

\* C12: while the request at hand is a ledger or cart request without a
\* verified identity, no step reads or writes the gateway: the ledger and
\* cart tables stay as they are and a handler that starts ends at once with
\* its 401 ('User not authenticated', 'Unauthorized').
LedgerAndCartRoutes ==
  {r.route : r \in Routes} \ {"POST /auth/register"}

C12_NoGatewayWithoutIdentity ==
  [][ (incoming.route \in LedgerAndCartRoutes /\ ~incoming.verified) =>
        /\ UNCHANGED <<enrollments, transactions, coupons, carts, cartItems>>
        /\ \A q \in LedgerReqs :
              ledgerReq'[q] # ledgerReq[q] =>
                 /\ ledgerReq'[q].pc = "failed"
                 /\ ledgerReq'[q].error = "User not authenticated"
        /\ \A c \in CartReqs :
              cartReq'[c] # cartReq[c] =>
                 /\ cartReq'[c].pc = "failed"
                 /\ cartReq'[c].error = "Unauthorized"
    ]_vars

\* the rows of order_items that belong to an order
ItemsOfOrder(orderId) == {it \in orderItems : it.orderId = orderId}

RECURSIVE AmountOfItems(_)
AmountOfItems(items) ==
  IF items = {} THEN 0
  ELSE LET it == CHOOSE x \in items : TRUE IN
       it.price * it.quantity + AmountOfItems(items \ {it})

\* C13: every order row has all the items it was requested with (their
\* amounts add up to its totalAmount, which createOrder computed from the
\* requested items, each of a positive amount), every item row belongs to an
\* order row, and a createOrder that has failed has left neither.
C13_OrderAllOrNothing ==
  /\ \A o \in orders :
        /\ ItemsOfOrder(o.id) # {}
        /\ AmountOfItems(ItemsOfOrder(o.id)) = o.totalAmount
  /\ \A it \in orderItems : \E o \in orders : o.id = it.orderId

\* a createOrder has failed at its second item, after its order row and its
\* first item were written in the transaction, and an earlier order stands
\* with its two items
C13_Witness ==
  /\ orderReq.pc = "failed"
  /\ orderReq.error = "Failed to create order"
  /\ Cardinality(orders) = 1
  /\ nextOrderId = 3
  /\ \E o \in orders : Cardinality(ItemsOfOrder(o.id)) = 2

\* C14: a redemption that names a reward without a row ends with 'Reward not
\* found' and one that names an inactive reward ends with 'Reward is not
\* active', whatever the balance of the user; neither writes a transaction
\* or a coupon.
C14_RewardCheckedFirst ==
  [][\A q \in LedgerReqs :
       LET r == ledgerReq[q]
           reward == FindReward(r.rewardId) IN
       ( /\ r.op = "redeemPoints"
         /\ r.pc = "status_transactions"
         /\ ledgerReq'[q].pc \notin {"status_transactions"}
         /\ ledgerReq'[q].error # "Failed: gateway" )
       => /\ reward = NoRow =>
               /\ ledgerReq'[q].error = "Reward not found"
               /\ UNCHANGED <<transactions, coupons>>
          /\ (reward # NoRow /\ ~reward.isActive) =>
               /\ ledgerReq'[q].error = "Reward is not active"
               /\ UNCHANGED <<transactions, coupons>>
    ]_ledgerVars

\* C15: the status of a row of the ledger changes only from Pending, and only
\* to Completed, Cancelled or Failed; a Completed row stays Completed.
C15_CompletedIsTerminal ==
  [][\A i \in 1..Len(transactions) :
       transactions'[i].status # transactions[i].status =>
          /\ transactions[i].status = "Pending"
          /\ transactions'[i].status \in {"Completed", "Cancelled", "Failed"}
    ]_ledgerVars

\* C16: no step removes a row of the ledger, and the userId, type, points and
\* description of a row that exists stay as they were written; only its
\* status may change.
C16_LedgerAppendOnly ==
  [][ /\ Len(transactions') >= Len(transactions)
      /\ \A i \in 1..Len(transactions) :
            /\ transactions'[i].userId = transactions[i].userId
            /\ transactions'[i].type = transactions[i].type
            /\ transactions'[i].points = transactions[i].points
            /\ transactions'[i].description = transactions[i].description
    ]_ledgerVars

\* the Earned row of 250 points, created Completed, has had its status
\* changed after a redemption appended its Redeemed row behind it
C16_Witness ==
  /\ Len(transactions) = 2
  /\ transactions[1].type = "Earned"
  /\ transactions[1].points = 250
  /\ transactions[1].status = "Cancelled"
  /\ transactions[2].description = "redeemPoints"

\* C17: every row of the ledger has one of the four types Earned, Redeemed,
\* Cancelled, Expired and points >= 0: createTransaction has written no row
\* of another type or of negative points.
C17_TransactionsValidated ==
  \A i \in 1..Len(transactions) :
     /\ transactions[i].type \in {"Earned", "Redeemed", "Cancelled", "Expired"}
     /\ transactions[i].points >= 0

\* C18: no step of the ledger changes the tierName of an enrollment, and a
\* status that is answered carries the tierName of the user's enrollment
\* whatever the balance it reports.
C18_TierIsStatic ==
  [][ /\ \A e \in enrollments : e \in enrollments'
      /\ \A q \in LedgerReqs :
            ( /\ ledgerReq[q].pc = "status_transactions"
              /\ ledgerReq'[q].pc \in {"done", "redeem_transaction"} )
            => ledgerReq'[q].tierName = FindEnrollment(ledgerReq[q].userId).tierName
    ]_ledgerVars

\* user 1, enrolled in the base tier, has been answered a status of 250
\* points with the base tier although a higher tier requires 200
C18_Witness ==
  /\ ledgerReq["q1"].op = "getLoyaltyStatus"
  /\ ledgerReq["q1"].pc = "done"
  /\ ledgerReq["q1"].userId = 1
  /\ ledgerReq["q1"].totalPoints = 250
  /\ ledgerReq["q1"].tierName = FindBaseTier.name
  /\ \E t \in LoyaltyTiers :
       t.requiredPoints > FindBaseTier.requiredPoints
         /\ t.requiredPoints <= ledgerReq["q1"].totalPoints

\* C19: a status that is answered names as nextTier a tier whose
\* requiredPoints is above the enrolled tier's and is the least such, names
\* none exactly when no tier is above, and never names a tier of the enrolled
\* tier's requiredPoints.
C19_NextTierIsNextAbove ==
  [][\A q \in LedgerReqs :
       ( /\ ledgerReq[q].pc = "status_transactions"
         /\ ledgerReq'[q].pc \in {"done", "redeem_transaction"} )
       => LET tier == FindTier(FindEnrollment(ledgerReq[q].userId).tierName)
              above == {t \in LoyaltyTiers : t.requiredPoints > tier.requiredPoints}
              next == ledgerReq'[q].nextTier IN
          /\ (next = "") <=> (above = {})
          /\ next # "" =>
                /\ FindTier(next) \in above
                /\ \A t \in above : FindTier(next).requiredPoints <= t.requiredPoints
    ]_ledgerVars

\* a user enrolled in one of the two highest tiers, which share their
\* requiredPoints, has been answered a status without nextTier, and the
\* other user's tier has a tier above it
C19_Witness ==
  /\ ledgerReq["q1"].op = "getLoyaltyStatus"
  /\ ledgerReq["q1"].pc = "done"
  /\ ledgerReq["q1"].nextTier = ""
  /\ \E t \in LoyaltyTiers :
       /\ t.name # ledgerReq["q1"].tierName
       /\ t.requiredPoints = FindTier(ledgerReq["q1"].tierName).requiredPoints
  /\ \E e \in enrollments : NextTierCandidates(FindTier(e.tierName)) # {}

\* the items of one cart with the same product, size and color
SameCombination(a, b) ==
  /\ a.cartId = b.cartId
  /\ a.productId = b.productId
  /\ a.size = b.size
  /\ a.color = b.color

\* C21: after any sequence of addItem calls a cart holds at most one CartItem
\* per (productId, size, color) combination, and its quantity, the sum of the
\* quantities added for the combination, never exceeds the product's stock.
C21_OneItemPerCombination ==
  CartFinished("c1") =>
     /\ \A a, b \in cartItems : SameCombination(a, b) => a.id = b.id
     /\ \A it \in cartItems : it.quantity <= products[it.productId].stock

\* the sum of price x quantity over items, at the prices of a products table
RECURSIVE SubtotalAt(_, _)
SubtotalAt(prices, items) ==
  IF items = {} THEN 0
  ELSE LET it == CHOOSE x \in items : TRUE IN
       prices[it.productId].price * it.quantity + SubtotalAt(prices, items \ {it})

\* C22: an updateItem that succeeds leaves the cart's subtotal at the sum of
\* current product price x quantity over the cart's items, also when the
\* price of the product changed after the item was added.
C22_UpdateItemReprices ==
  [][UpdateItemUpdateCart("c1") =>
       LET userId == cartReq["c1"].userId IN
       carts'[userId].subtotal
          = SubtotalAt(products', {it \in cartItems' : it.cartId = userId})]_vars

\* the item exists and is an item of the user's cart
OwnsItem(userId, itemId) ==
  \E it \in cartItems : it.id = itemId /\ it.cartId = userId

\* C23: updateItem and removeItem with an item id that does not exist or
\* that belongs to another user's cart fail ItemNotFound and change no
\* CartItem and no Cart aggregate: the step that looks the item up, or
\* writes it under the cart's id, ends the request with that error.
C23_ForeignItemNotFound ==
  [][LET r == cartReq["c1"] IN
     ( /\ r.pc \in {"find_item", "carts_update_item", "carts_delete_item"}
       /\ ~OwnsItem(r.userId, r.itemId) )
     => /\ cartReq'["c1"].pc = "failed"
        /\ cartReq'["c1"].error = "Item not found in cart"
        /\ UNCHANGED <<cartItems, carts>>]_vars

\* the step is a markUsed of the code, with the answer it got
MarkedUsed(code) ==
  /\ Len(markAnswers') = Len(markAnswers) + 1
  /\ markAnswers'[Len(markAnswers')].code = code

\* C24: the isUsed of a coupon changes only from false to true and only
\* through markUsed, no other step updates a coupon that exists; validate of a
\* used coupon fails 'Coupon has already been used'; markUsed on an unknown
\* code fails CouponNotFound.
C24_UsedIsFinal ==
  [][\A code \in CodeInputs :
       LET before == FindCoupon(code)
           after == FindCoupon(code)' IN
       /\ (before # NoRow /\ after # NoRow /\ after # before)
             => /\ ~before.isUsed
                /\ after = [before EXCEPT !.isUsed = TRUE]
                /\ MarkedUsed(code)
       /\ (before # NoRow /\ before.isUsed /\ couponRes' # couponRes
              /\ couponRes'.code = code)
             => couponRes'.error = "Coupon has already been used"
       /\ (before = NoRow /\ MarkedUsed(code))
             => /\ markAnswers'[Len(markAnswers')].statusCode = 404
                /\ markAnswers'[Len(markAnswers')].message = "Coupon not found"
    ]_vars

\* C25: every redeem that has passed the reward and balance checks and
\* reaches its coupon insert creates exactly one coupon, with the reward's
\* value and type and isUsed = false, under a code no existing coupon has:
\* the generated code never collides, also at one clock instant.
C25_RedeemIssuesFreshCoupon ==
  [][\A q \in LedgerReqs :
       (ledgerReq[q].pc = "redeem_coupon" /\ ledgerReq'[q].pc # "redeem_coupon")
       => LET reward == FindReward(ledgerReq[q].rewardId) IN
          \E c \in coupons' \ coupons :
             /\ coupons' = coupons \cup {c}
             /\ c.value = reward.value
             /\ c.type = reward.type
             /\ ~c.isUsed
             /\ \A other \in coupons : other.code # c.code
    ]_vars

C27_PendingOrderCancellable ==
  [][(OrderFinished /\ orderReq'.op = "cancelOrder")
       => LET o == FindOrder(orderReq'.orderId) IN
          IF o # NoRow /\ o.userId = orderReq'.userId /\ o.status = "pending"
          THEN orderReq'.pc \in {"cancel_update", "done"}
          ELSE orderReq'.pc = "failed" /\ orders' = orders
    ]_vars

\* C28: refunded and cancelled are terminal: no step takes an order that is
\* refunded or cancelled to paid.
C28_RefundedIsTerminal ==
  [][\A o \in orders :
       o.status \in {"refunded", "CANCELLED"}
       => FindOrder(o.id)'.status # "paid"
    ]_vars

\* the responses written for a request that has ended: those of its handler
\* and the one of the error handler for the error it threw
ResponsesWritten(r) == r.responses + (IF r.pc = "failed" THEN 1 ELSE 0)

\* C29: every loyalty request that has ended was answered exactly once,
\* redeemPoints and getLoyaltyBanner included, and the one response of a
\* redeemPoints that wrote its Redeemed transaction and its coupon is the
\* success message carrying the coupon.
C29_AnsweredOnce ==
  \A q \in LedgerReqs :
     LET r == ledgerReq[q] IN
     (Finished(q) /\ r.op \in {"getLoyaltyStatus", "getLoyaltyBanner", "redeemPoints"})
     => /\ r.pc # "coupon_issued" => ResponsesWritten(r) = 1
        /\ r.pc = "coupon_issued" =>
              /\ r.responses = 1
              /\ r.body = "redeemed"
              /\ r.error = ""

\* C30: a coupon is consumed at most once: a markUsed of a coupon that has
\* been marked used already does not succeed, so of two checkouts that both
\* call markUsed for one coupon at most one is answered with success.
C30_ConsumedAtMostOnce ==
  [][\A code \in CodeInputs :
       LET coupon == FindCoupon(code) IN
       (MarkedUsed(code) /\ coupon # NoRow /\ coupon.isUsed)
       => markAnswers'[Len(markAnswers')].statusCode # 200
    ]_vars

====
